---------------------------- MODULE Spec2Model ----------------------------
(***************************************************************************)
(* Lead qualification and routing of ParthBadani96/hubspot-backend.        *)
(*                                                                         *)
(* The repository holds several server variants.  The model covers         *)
(*   - the scoring engine calculateLeadScore        (GTM automation server)*)
(*   - the categorizers categorizeLead / getCategory                       *)
(*   - assignTerritory                              (complete GTM backend) *)
(*   - POST /api/hubspot/contacts, the full pipeline (complete GTM backend)*)
(*   - POST /api/leads, GET /api/leads/:email, GTMAgent.processLead        *)
(*   - POST /api/hubspot/contacts of server.js       (the first backend)   *)
(*                                                                         *)
(* JavaScript strings that the code inspects character by character        *)
(* (toLowerCase, includes) are sequences of one-character strings.         *)
(* undefined is UNDEF_STR for a string, UNDEF_ARR for an array, UNDEF_NUM  *)
(* for a number, and isObj = FALSE for an object.                          *)
(***************************************************************************)
EXTENDS Integers, Sequences, FiniteSets, TLC

VARIABLES
    \* ---- scoring engine (calculateLeadScore called on one lead) ----
    scLead,        \* the leadData argument
    scEnriched,    \* the enrichedData argument
    scResult,      \* outcome of the latest call
    scOp,          \* what the latest step was
    \* ---- routing rules (assignTerritory, categorizeLead, getCategory) ----
    rlLead,        \* the lead the rules are applied to
    rlTerritory,   \* result of assignTerritory
    rlCategory,    \* result of GTMAgent.categorizeLead
    rlHubCategory, \* result of HubSpotIntegration.getCategory
    rlOp,          \* what the latest step was
    \* ---- complete GTM backend: one POST /api/hubspot/contacts request ----
    gCfg,          \* which integrations have a real key (not the demo default)
    gLead,         \* leadData of the request body
    gEnriched,     \* enrichedLead
    gPc,           \* position of the handler
    gResults,      \* processingResults
    gResponse,     \* what res.json / res.status(500).json sent
    gCalls,        \* outbound HTTP requests, in issue order, with their result
    gSteps,        \* pipeline functions the handler has called, in order
    \* ---- GTM automation server: POST /api/leads ----
    aCfg,          \* which integrations are configured
    aReq,          \* per submission: the handler's position and local data
    aStore,        \* the Maps leads, enrichedData, campaigns and emailQueue
    aCrm,          \* emails of the contacts HubSpot holds
    aGet           \* the latest GET /api/leads/:email and its response

scoreVars == <<scLead, scEnriched, scResult, scOp>>

ruleVars == <<rlLead, rlTerritory, rlCategory, rlHubCategory, rlOp>>

gtmVars == <<gCfg, gLead, gEnriched, gPc, gResults, gResponse, gCalls, gSteps>>

agentVars == <<aCfg, aReq, aStore, aCrm, aGet>>

pipeVars == <<gtmVars, agentVars>>

vars == <<scLead, scEnriched, scResult, scOp,
          rlLead, rlTerritory, rlCategory, rlHubCategory, rlOp,
          gCfg, gLead, gEnriched, gPc, gResults, gResponse, gCalls, gSteps,
          aCfg, aReq, aStore, aCrm, aGet>>

\* the request handlers while one of the pure-function specifications runs
IdleGtm ==
    /\ gCfg = "idle" /\ gLead = "idle" /\ gEnriched = "idle" /\ gPc = "idle"
    /\ gResults = "idle" /\ gResponse = "idle" /\ gCalls = << >> /\ gSteps = << >>

\* the two submissions POST /api/leads may have in flight
Requests == {1, 2}

IdleAgent ==
    /\ aCfg = "idle"
    /\ aReq = [r \in Requests |-> [pc |-> "absent"]]
    /\ aStore = "idle"
    /\ aCrm = {}
    /\ aGet = [email |-> "undefined", status |-> 0]

IdlePipe == IdleGtm /\ IdleAgent

-----------------------------------------------------------------------------
(* JavaScript values *)

UNDEF_STR == <<"undefined">>
UNDEF_ARR == << <<"undefined">> >>
UNDEF_NUM == 0 - 1

EmptyStr == << >>

\* truthiness of a string value: undefined and '' are falsy
TruthyStr(s) == s /= UNDEF_STR /\ s /= EmptyStr
\* truthiness of an array value: only undefined is falsy ([] is truthy)
TruthyArr(a) == a /= UNDEF_ARR
\* value of (n || 0) for a number
NumOrZero(n) == IF n = UNDEF_NUM THEN 0 ELSE n

UpperChars == <<"A","B","C","D","E","F","G","H","I","J","K","L","M",
                "N","O","P","Q","R","S","T","U","V","W","X","Y","Z">>
LowerChars == <<"a","b","c","d","e","f","g","h","i","j","k","l","m",
                "n","o","p","q","r","s","t","u","v","w","x","y","z">>

OtherChars == {" ", "-", "+", ".", "@", "0", "1", "2", "3", "4", "5", "6", "7", "8", "9"}

Chars == {UpperChars[i] : i \in 1..Len(UpperChars)}
             \cup {LowerChars[i] : i \in 1..Len(LowerChars)} \cup OtherChars

LowerTable ==
    [c \in Chars |->
        IF \E i \in 1..Len(UpperChars) : UpperChars[i] = c
        THEN LowerChars[CHOOSE i \in 1..Len(UpperChars) : UpperChars[i] = c]
        ELSE c]

LowerChar(c) == LowerTable[c]

\* String.prototype.toLowerCase
toLowerCase(s) == [i \in 1..Len(s) |-> LowerChar(s[i])]

\* String.prototype.includes
includes(s, sub) ==
    \E k \in 0..(Len(s) - Len(sub)) :
        \A j \in 1..Len(sub) : s[k + j] = sub[j]

Str_QuickBooks == <<"Q", "u", "i", "c", "k", "B", "o", "o", "k", "s">>
Str_NetSuite == <<"N", "e", "t", "S", "u", "i", "t", "e">>
Str_Salesforce == <<"S", "a", "l", "e", "s", "f", "o", "r", "c", "e">>
Str_Stripe == <<"S", "t", "r", "i", "p", "e">>
Str_Shopify == <<"S", "h", "o", "p", "i", "f", "y">>
Str_Square == <<"S", "q", "u", "a", "r", "e">>
Str_CEO == <<"C", "E", "O">>
Str_CFO == <<"C", "F", "O">>
Str_VPFinance == <<"V", "P", " ", "F", "i", "n", "a", "n", "c", "e">>
Str_Controller == <<"C", "o", "n", "t", "r", "o", "l", "l", "e", "r">>
Str_FinanceDirector == <<"F", "i", "n", "a", "n", "c", "e", " ", "D", "i", "r", "e", "c", "t", "o", "r">>
Str_COO == <<"C", "O", "O">>
Str_SaaS == <<"S", "a", "a", "S">>
Str_Ecommerce == <<"E", "-", "c", "o", "m", "m", "e", "r", "c", "e">>
Str_ProfessionalServices == <<"P", "r", "o", "f", "e", "s", "s", "i", "o", "n", "a", "l", " ", "S", "e", "r", "v", "i", "c", "e", "s">>
Str_Marketing == <<"M", "a", "r", "k", "e", "t", "i", "n", "g">>
Str_Wholesale == <<"W", "h", "o", "l", "e", "s", "a", "l", "e">>
Str_Analyst == <<"A", "n", "a", "l", "y", "s", "t">>
Str_cfo == <<"c", "f", "o">>
Str_B2BSaaS == <<"B", "2", "B", " ", "S", "a", "a", "S">>
Str_fintech == <<"f", "i", "n", "t", "e", "c", "h">>
Str_HubSpot == <<"H", "u", "b", "S", "p", "o", "t">>
Str_quickbooksOnline == <<"q", "u", "i", "c", "k", "b", "o", "o", "k", "s", " ", "o", "n", "l", "i", "n", "e">>

-----------------------------------------------------------------------------
(* Lead Scoring Engine: calculateLeadScore *)

targetTech == <<Str_QuickBooks, Str_NetSuite, Str_Salesforce, Str_Stripe,
                Str_Shopify, Str_Square>>
highValueTitles == <<Str_CEO, Str_CFO, Str_VPFinance, Str_Controller,
                     Str_FinanceDirector, Str_COO>>
targetIndustries == <<Str_SaaS, Str_Ecommerce, Str_ProfessionalServices,
                      Str_Marketing, Str_Wholesale>>

MaxScore == 100

NoCompany == [isObj |-> FALSE, revenue |-> UNDEF_NUM, employees |-> UNDEF_NUM,
              technologies |-> UNDEF_ARR, industry |-> UNDEF_STR]
NoIntent == [isObj |-> FALSE, signalStrength |-> "undefined"]
NoPerson == [isObj |-> FALSE, title |-> UNDEF_STR]

\* the object {}
EmptyProfile == [isObj |-> TRUE, company |-> NoCompany,
                 technologies |-> UNDEF_ARR, intent |-> NoIntent,
                 person |-> NoPerson]
\* undefined
AbsentProfile == [EmptyProfile EXCEPT !.isObj = FALSE]

\* enrichedData?.company, enrichedData?.intent, enrichedData?.person
OptCompany(e) == IF e.isObj THEN e.company ELSE NoCompany
OptIntent(e) == IF e.isObj THEN e.intent ELSE NoIntent
OptPerson(e) == IF e.isObj THEN e.person ELSE NoPerson
\* enrichedData?.technologies, enrichedData?.company?.technologies
OptTechnologies(e) == IF e.isObj THEN e.technologies ELSE UNDEF_ARR
OptCompanyTechnologies(e) ==
    IF OptCompany(e).isObj THEN OptCompany(e).technologies ELSE UNDEF_ARR

\* revenue and employee contributions
RevenueScore(e) ==
    IF OptCompany(e).isObj
    THEN LET revenue == NumOrZero(e.company.revenue)
             employees == NumOrZero(e.company.employees)
         IN  (IF revenue >= 2000000 /\ revenue <= 100000000 THEN 25 ELSE 0)
           + (IF revenue >= 5000000 /\ revenue <= 50000000 THEN 10 ELSE 0)
           + (IF employees >= 10 /\ employees <= 500 THEN 15 ELSE 0)
    ELSE 0

\* the array the technology rule reads:
\* enrichedData.technologies || enrichedData.company.technologies || []
DetectedTechnologies(e) ==
    IF TruthyArr(OptTechnologies(e)) THEN e.technologies
    ELSE IF TruthyArr(OptCompanyTechnologies(e)) THEN e.company.technologies
    ELSE << >>

\* targetTech.filter(tech => technologies.some(t => t.toLowerCase().includes(tech.toLowerCase())))
TechMatches(technologies) ==
    { i \in 1..Len(targetTech) :
        \E k \in 1..Len(technologies) :
            includes(toLowerCase(technologies[k]), toLowerCase(targetTech[i])) }

TechScore(e) ==
    IF TruthyArr(OptTechnologies(e)) \/ TruthyArr(OptCompanyTechnologies(e))
    THEN Cardinality(TechMatches(DetectedTechnologies(e))) * 10
    ELSE 0

IntentScoreMisordered(e) ==
    IF OptIntent(e).isObj
    THEN CASE e.intent.signalStrength = "very_high" -> 10
           [] e.intent.signalStrength = "high" -> 15
           [] e.intent.signalStrength = "medium" -> 20
           [] e.intent.signalStrength = "low" -> 25
           [] OTHER -> 0
    ELSE 0

IntentScore(e) ==
    IF OptIntent(e).isObj
    THEN CASE e.intent.signalStrength = "very_high" -> 25
           [] e.intent.signalStrength = "high" -> 20
           [] e.intent.signalStrength = "medium" -> 15
           [] e.intent.signalStrength = "low" -> 10
           [] OTHER -> 0
    ELSE 0

\* leadData.title || enrichedData?.person?.title || ''
EffectiveTitle(l, e) ==
    IF TruthyStr(l.title) THEN l.title
    ELSE IF TruthyStr(OptPerson(e).title) THEN OptPerson(e).title
    ELSE EmptyStr

IsHighValueTitle(title) ==
    \E i \in 1..Len(highValueTitles) :
        includes(toLowerCase(title), toLowerCase(highValueTitles[i]))

TitleScore(l, e) == IF IsHighValueTitle(EffectiveTitle(l, e)) THEN 20 ELSE 0

\* leadData.industry || enrichedData?.company?.industry || ''
EffectiveIndustry(l, e) ==
    IF TruthyStr(l.industry) THEN l.industry
    ELSE IF TruthyStr(OptCompany(e).industry) THEN OptCompany(e).industry
    ELSE EmptyStr

IsTargetIndustry(industry) ==
    \E i \in 1..Len(targetIndustries) :
        includes(toLowerCase(industry), toLowerCase(targetIndustries[i]))

IndustryScore(l, e) == IF IsTargetIndustry(EffectiveIndustry(l, e)) THEN 15 ELSE 0

Min(a, b) == IF a <= b THEN a ELSE b

RawScore(l, e) ==
    RevenueScore(e) + TechScore(e) + IntentScore(e)
        + TitleScore(l, e) + IndustryScore(l, e)

\* a call either returns a number or throws a TypeError
Returned(n) == [threw |-> FALSE, value |-> n]
Threw == [threw |-> TRUE, value |-> 0]

\* variant without the final Math.min
calculateLeadScoreUnclamped(l, e) == Returned(RawScore(l, e))

\* variant that reads enrichedData.company without optional chaining
calculateLeadScoreUnguarded(l, e) ==
    IF e.isObj THEN Returned(Min(RawScore(l, e), MaxScore)) ELSE Threw

calculateLeadScore(l, e) == Returned(Min(RawScore(l, e), MaxScore))

-----------------------------------------------------------------------------
(* Territory assignment and the two categorizers *)

UNDEF == "undefined"

EnterpriseTeam == [territory |-> "Enterprise Team", assignedRep |-> "Michael Chen"]
MidMarketTeam == [territory |-> "Mid-Market Team", assignedRep |-> "Alex Rodriguez"]
SMBTeam == [territory |-> "SMB Team", assignedRep |-> "Sarah Johnson"]

\* variant with the industry rule appended to the else-if chain
assignTerritoryElseIf(leadData) ==
    IF leadData.companySize = "1000+" THEN EnterpriseTeam
    ELSE IF leadData.companySize = "201-1000"
            \/ (leadData.companySize = "51-200" /\ leadData.score >= 70)
         THEN MidMarketTeam
    ELSE IF leadData.industry = "fintech" /\ leadData.score >= 80
         THEN EnterpriseTeam
    ELSE SMBTeam

\* variant with score > 70 in the Mid-Market rule
assignTerritoryOffByOne(leadData) ==
    LET bySize ==
            IF leadData.companySize = "1000+" THEN EnterpriseTeam
            ELSE IF leadData.companySize = "201-1000"
                    \/ (leadData.companySize = "51-200" /\ leadData.score > 70)
                 THEN MidMarketTeam
            ELSE SMBTeam
    IN  IF leadData.industry = "fintech" /\ leadData.score >= 80
        THEN EnterpriseTeam
        ELSE bySize

assignTerritory(leadData) ==
    LET bySize ==
            IF leadData.companySize = "1000+" THEN EnterpriseTeam
            ELSE IF leadData.companySize = "201-1000"
                    \/ (leadData.companySize = "51-200" /\ leadData.score >= 70)
                 THEN MidMarketTeam
            ELSE SMBTeam
    IN  IF leadData.industry = "fintech" /\ leadData.score >= 80
        THEN EnterpriseTeam
        ELSE bySize

\* variant with the WARM test before the HOT test
categorizeLeadSwapped(score) ==
    IF score >= 10 THEN "WARM"
    ELSE IF score >= 40 THEN "HOT"
    ELSE "COLD"

\* GTMAgent.categorizeLead
categorizeLead(score) ==
    IF score >= 40 THEN "HOT"
    ELSE IF score >= 10 THEN "WARM"
    ELSE "COLD"

\* HubSpotIntegration.getCategory
getCategory(score) ==
    IF score >= 85 THEN "HOT"
    ELSE IF score >= 60 THEN "WARM"
    ELSE IF score >= 40 THEN "QUALIFIED"
    ELSE "COLD"

CompanySizes == {"1-10", "11-50", "51-200", "201-1000", "1000+", UNDEF}
Industries == {"fintech", "FinTech", "retail", UNDEF}
FirstNames == {"Sarah", "Alex"}
RuleScores == (0..MaxScore) \cup {UNDEF_NUM}

RuleLeads ==
    { [firstName |-> f, companySize |-> c, industry |-> i, score |-> n] :
        f \in {"Sarah"}, c \in CompanySizes, i \in Industries, n \in RuleScores }

NoTerritory == [territory |-> UNDEF, assignedRep |-> UNDEF]

IdleRules ==
    /\ rlLead = [firstName |-> "Sarah", companySize |-> UNDEF,
                 industry |-> UNDEF, score |-> UNDEF_NUM]
    /\ rlTerritory = NoTerritory
    /\ rlCategory = UNDEF
    /\ rlHubCategory = UNDEF
    /\ rlOp = "idle"

-----------------------------------------------------------------------------
(* The scoring engine called on one lead: a first call, a repeated call on  *)
(* the same arguments (GET /api/leads/:email recomputes the score), and     *)
(* calls after one scoring signal of the arguments was turned on.           *)

MaxTech == 2

NotScored == [threw |-> FALSE, value |-> 0 - 1]

ScoreLeads == { [title |-> EmptyStr, industry |-> UNDEF_STR],
                [title |-> Str_Analyst, industry |-> Str_fintech] }

\* profiles the calls start from, every signal off: undefined, {}, the shape
\* of ClayIntegration.enrichLead / getMockEnrichment, and a profile whose
\* top-level technologies array hides the company's
ScoreProfiles ==
    { AbsentProfile,
      EmptyProfile,
      [EmptyProfile EXCEPT
          !.company = [NoCompany EXCEPT !.isObj = TRUE,
                                        !.revenue = 100000001,
                                        !.employees = 501,
                                        !.technologies = <<Str_HubSpot>>],
          !.intent = [isObj |-> TRUE, signalStrength |-> "none"],
          !.person = [isObj |-> TRUE, title |-> EmptyStr]],
      [EmptyProfile EXCEPT
          !.technologies = << >>,
          !.company = [NoCompany EXCEPT !.isObj = TRUE,
                                        !.revenue = 1999999,
                                        !.employees = 9,
                                        !.technologies = <<Str_Salesforce>>]] }

\* the scoring engine is not exercised
IdleScore ==
    /\ scLead = [title |-> EmptyStr, industry |-> UNDEF_STR]
    /\ scEnriched = AbsentProfile
    /\ scResult = NotScored
    /\ scOp = "idle"

InitScore ==
    /\ IdleRules
    /\ IdlePipe
    /\ scLead \in ScoreLeads
    /\ scEnriched \in ScoreProfiles
    /\ scResult = NotScored
    /\ scOp = "init"

Scored == scOp \notin {"init", "idle"}

\* a call of calculateLeadScore(l, e) after step op
Rescore(l, e, op) ==
    /\ scLead' = l
    /\ scEnriched' = e
    /\ scResult' = calculateLeadScore(l, e)
    /\ scOp' = op
    /\ UNCHANGED <<ruleVars, pipeVars>>

\* first call, as in GTMAgent.processLead
ScoreLead ==
    /\ scOp = "init"
    /\ Rescore(scLead, scEnriched, "first")

\* second call on the same arguments
ScoreAgain ==
    /\ Scored
    /\ scOp /= "again"
    /\ Rescore(scLead, scEnriched, "again")

\* a high-value title appears, in the lead or in the enriched person
MatchTitle ==
    /\ Scored
    /\ ~IsHighValueTitle(EffectiveTitle(scLead, scEnriched))
    /\ \/ Rescore([scLead EXCEPT !.title = Str_CFO], scEnriched, "turnon")
       \/ /\ ~TruthyStr(scLead.title)
          /\ scEnriched.isObj
          /\ Rescore(scLead,
                     [scEnriched EXCEPT
                         !.person = [isObj |-> TRUE, title |-> Str_cfo]],
                     "turnon")

\* a target industry appears, in the lead or in the enriched company
MatchIndustry ==
    /\ Scored
    /\ ~IsTargetIndustry(EffectiveIndustry(scLead, scEnriched))
    /\ \/ Rescore([scLead EXCEPT !.industry = Str_Ecommerce], scEnriched,
                  "turnon")
       \/ /\ ~TruthyStr(scLead.industry)
          /\ scEnriched.isObj
          /\ Rescore(scLead,
                     [scEnriched EXCEPT !.company.isObj = TRUE,
                                        !.company.industry = Str_B2BSaaS],
                     "turnon")

RevenueBands(r) ==
    (IF r >= 2000000 /\ r <= 100000000 THEN {"target"} ELSE {})
        \cup (IF r >= 5000000 /\ r <= 50000000 THEN {"tight"} ELSE {})

InBandRevenues == {2000000, 50000000, 100000000}

\* the company revenue enters the target band or its tighter sub-band
EnterRevenueBand ==
    /\ Scored
    /\ scEnriched.isObj
    /\ \E r \in InBandRevenues :
        /\ RevenueBands(NumOrZero(OptCompany(scEnriched).revenue))
               \subseteq RevenueBands(r)
        /\ RevenueBands(NumOrZero(OptCompany(scEnriched).revenue))
               /= RevenueBands(r)
        /\ Rescore(scLead,
                   [scEnriched EXCEPT !.company.isObj = TRUE,
                                      !.company.revenue = r],
                   "turnon")

InBandEmployees == {10, 500}

\* the employee count enters the 10-500 band
EnterEmployeeBand ==
    /\ Scored
    /\ scEnriched.isObj
    /\ LET old == NumOrZero(OptCompany(scEnriched).employees)
       IN  ~(old >= 10 /\ old <= 500)
    /\ \E n \in InBandEmployees :
          Rescore(scLead,
                  [scEnriched EXCEPT !.company.isObj = TRUE,
                                     !.company.employees = n],
                  "turnon")

TechStrings == {Str_Salesforce, Str_quickbooksOnline}

\* a technology matching a target not matched so far is added to the
\* detected stack (the array the technology rule reads)
AddTechnology ==
    /\ Scored
    /\ scEnriched.isObj
    /\ Len(DetectedTechnologies(scEnriched)) < MaxTech
    /\ \E t \in TechStrings :
        /\ ~(TechMatches(<<t>>) \subseteq
                 TechMatches(DetectedTechnologies(scEnriched)))
        /\ \/ /\ TruthyArr(scEnriched.technologies)
              /\ Rescore(scLead,
                         [scEnriched EXCEPT
                             !.technologies = Append(@, t)],
                         "turnon")
           \/ /\ ~TruthyArr(scEnriched.technologies)
              /\ TruthyArr(OptCompanyTechnologies(scEnriched))
              /\ Rescore(scLead,
                         [scEnriched EXCEPT
                             !.company.technologies = Append(@, t)],
                         "turnon")
           \/ /\ ~TruthyArr(scEnriched.technologies)
              /\ ~TruthyArr(OptCompanyTechnologies(scEnriched))
              /\ Rescore(scLead,
                         [scEnriched EXCEPT !.technologies = <<t>>],
                         "turnon")

IntentTiers == <<"low", "medium", "high", "very_high">>

IntentRank(i) ==
    IF i.isObj /\ \E k \in 1..Len(IntentTiers) : IntentTiers[k] = i.signalStrength
    THEN CHOOSE k \in 1..Len(IntentTiers) : IntentTiers[k] = i.signalStrength
    ELSE 0

\* the intent-signal strength moves to a higher tier
RaiseIntent ==
    /\ Scored
    /\ scEnriched.isObj
    /\ \E k \in 1..Len(IntentTiers) :
        /\ k > IntentRank(scEnriched.intent)
        /\ Rescore(scLead,
                   [scEnriched EXCEPT
                       !.intent = [isObj |-> TRUE,
                                   signalStrength |-> IntentTiers[k]]],
                   "turnon")

NextScore ==
    \/ ScoreLead
    \/ ScoreAgain
    \/ MatchTitle
    \/ MatchIndustry
    \/ EnterRevenueBand
    \/ EnterEmployeeBand
    \/ AddTechnology
    \/ RaiseIntent

SpecScore == InitScore /\ [][NextScore]_vars

\* C1: calculateLeadScore returns an integer in [0,100] for every lead and
\* every enriched profile, the absent and the empty one included, and a
\* second call on the same lead and profile returns the same score.
C1_ScoreInRangeAndDeterministic ==
    /\ [](Scored => ~scResult.threw /\ scResult.value \in 0..MaxScore)
    /\ [][scOp' = "again" => scResult' = scResult]_vars

\* a clamped score has been returned a second time for the same arguments
C1_Witness ==
    /\ scOp = "again"
    /\ scResult.value = MaxScore
    /\ RawScore(scLead, scEnriched) > MaxScore

\* C9: turning on one positive scoring contribution, everything else fixed,
\* never decreases the score, and leaves it equal only at the clamp of 100.
C9_TurnOnNeverDecreases ==
    [][scOp' = "turnon" =>
          /\ ~scResult'.threw
          /\ scResult'.value >= scResult.value
          /\ (scResult'.value = scResult.value => scResult'.value = MaxScore)]_vars

\* a contribution was turned on while the score was already clamped
C9_Witness ==
    /\ scOp = "turnon"
    /\ scResult.value = MaxScore
    /\ RawScore(scLead, scEnriched) >= MaxScore + 10

\* the contributions of the lead's own title and industry
OwnTitlePoints ==
    IF TruthyStr(scLead.title) /\ IsHighValueTitle(scLead.title) THEN 20 ELSE 0
OwnIndustryPoints ==
    IF TruthyStr(scLead.industry) /\ IsTargetIndustry(scLead.industry)
    THEN 15 ELSE 0

\* C10: with an absent or empty enriched profile calculateLeadScore raises
\* no error, the revenue, employee, technology and intent contributions are
\* 0, and the score is the sum of the lead's own title and industry points.
C10_AbsentProfileScoresLeadOnly ==
    (Scored /\ scEnriched \in {AbsentProfile, EmptyProfile}) =>
        /\ ~scResult.threw
        /\ RevenueScore(scEnriched) = 0
        /\ TechScore(scEnriched) = 0
        /\ IntentScore(scEnriched) = 0
        /\ scResult.value = OwnTitlePoints + OwnIndustryPoints

\* an absent profile scored for a lead with a high-value title and a
\* target industry
C10_Witness ==
    /\ Scored
    /\ scEnriched = AbsentProfile
    /\ scResult.value = 35

-----------------------------------------------------------------------------
(* The routing rules applied to one lead *)

InitRules ==
    /\ IdleScore
    /\ IdlePipe
    /\ rlLead \in RuleLeads
    /\ rlTerritory = NoTerritory
    /\ rlCategory = UNDEF
    /\ rlHubCategory = UNDEF
    /\ rlOp = "init"

\* Step 1 of POST /api/hubspot/contacts: assignTerritory(leadData)
AssignTerritory ==
    /\ rlOp = "init"
    /\ rlTerritory' = assignTerritory(rlLead)
    /\ rlOp' = "assigned"
    /\ UNCHANGED <<rlLead, rlCategory, rlHubCategory>>
    /\ UNCHANGED <<scoreVars, pipeVars>>

\* assignTerritory on another lead with the same companySize, industry, score
AssignOtherLead ==
    /\ rlOp = "assigned"
    /\ \E f \in FirstNames \ {rlLead.firstName} :
        /\ rlLead' = [rlLead EXCEPT !.firstName = f]
        /\ rlTerritory' = assignTerritory(rlLead')
    /\ rlOp' = "reassigned"
    /\ UNCHANGED <<rlCategory, rlHubCategory>>
    /\ UNCHANGED <<scoreVars, pipeVars>>

\* this.categorizeLead(score) in GTMAgent.processLead
CategorizeLead ==
    /\ rlOp \in {"init", "categorized"}
    /\ rlCategory = UNDEF
    /\ rlCategory' = categorizeLead(rlLead.score)
    /\ rlOp' = "categorized"
    /\ UNCHANGED <<rlLead, rlTerritory, rlHubCategory>>
    /\ UNCHANGED <<scoreVars, pipeVars>>

\* this.getCategory(score) in HubSpotIntegration.createOrUpdateContact
GetCategory ==
    /\ rlOp \in {"init", "categorized"}
    /\ rlHubCategory = UNDEF
    /\ rlHubCategory' = getCategory(rlLead.score)
    /\ rlOp' = "categorized"
    /\ UNCHANGED <<rlLead, rlTerritory, rlCategory>>
    /\ UNCHANGED <<scoreVars, pipeVars>>

\* both categorizers applied to the next higher score
RaiseScore ==
    /\ rlOp \in {"categorized", "raised"}
    /\ rlCategory /= UNDEF
    /\ rlHubCategory /= UNDEF
    /\ rlLead.score < MaxScore
    /\ rlLead' = [rlLead EXCEPT !.score = @ + 1]
    /\ rlCategory' = categorizeLead(rlLead'.score)
    /\ rlHubCategory' = getCategory(rlLead'.score)
    /\ rlOp' = "raised"
    /\ UNCHANGED rlTerritory
    /\ UNCHANGED <<scoreVars, pipeVars>>

NextRules ==
    \/ AssignTerritory
    \/ AssignOtherLead
    \/ CategorizeLead
    \/ GetCategory
    \/ RaiseScore

SpecRules == InitRules /\ [][NextRules]_vars

Assigned == rlOp \in {"assigned", "reassigned"}

\* C6: assignTerritory depends on (companySize, industry, score) only: a
\* lead with the same triple gets the same territory and representative;
\* and industry 'fintech' with score >= 80 gives the Enterprise territory
\* for every companySize.
C6_TerritoryPureAndFintechOverride ==
    /\ [][rlOp' = "reassigned" => rlTerritory' = rlTerritory]_vars
    /\ []((Assigned /\ rlLead.industry = "fintech" /\ rlLead.score >= 80)
              => rlTerritory.territory = "Enterprise Team")

\* a second lead of a mid-size fintech company with a high score was routed
C6_Witness ==
    /\ rlOp = "reassigned"
    /\ rlLead.industry = "fintech"
    /\ rlLead.score >= 80
    /\ rlLead.companySize = "201-1000"
    /\ rlTerritory.territory = "Enterprise Team"

\* C7: Enterprise Team / Michael Chen if companySize is '1000+' or
\* (industry 'fintech' and score >= 80); otherwise Mid-Market Team / Alex
\* Rodriguez if companySize is '201-1000' or ('51-200' and score >= 70);
\* otherwise SMB Team / Sarah Johnson.
C7_TerritoryTable ==
    Assigned =>
        IF rlLead.companySize = "1000+"
              \/ (rlLead.industry = "fintech" /\ rlLead.score >= 80)
        THEN rlTerritory = [territory |-> "Enterprise Team",
                            assignedRep |-> "Michael Chen"]
        ELSE IF rlLead.companySize = "201-1000"
                  \/ (rlLead.companySize = "51-200" /\ rlLead.score >= 70)
        THEN rlTerritory = [territory |-> "Mid-Market Team",
                            assignedRep |-> "Alex Rodriguez"]
        ELSE rlTerritory = [territory |-> "SMB Team",
                            assignedRep |-> "Sarah Johnson"]

\* a 51-200 company with score exactly 70 was routed to Mid-Market
C7_Witness ==
    /\ Assigned
    /\ rlLead.companySize = "51-200"
    /\ rlLead.score = 70
    /\ rlTerritory.territory = "Mid-Market Team"

CategoryRank(c) ==
    CASE c = "COLD" -> 0
      [] c = "QUALIFIED" -> 1
      [] c = "WARM" -> 2
      [] c = "HOT" -> 3

Categorized == rlCategory /= UNDEF /\ rlHubCategory /= UNDEF

\* C8: both categorizers are total on the scores 0..100, give each score one
\* category, and their bands are contiguous and ordered: a higher score never
\* gets a lower tier.  categorizeLead: HOT >= 40, WARM 10-39, COLD < 10;
\* getCategory: HOT >= 85, WARM 60-84, QUALIFIED 40-59, COLD < 40.
C8_CategoryBands ==
    /\ []((Categorized /\ rlLead.score \in 0..MaxScore) =>
            /\ rlCategory \in {"HOT", "WARM", "COLD"}
            /\ (rlCategory = "HOT" <=> rlLead.score >= 40)
            /\ (rlCategory = "WARM" <=> rlLead.score \in 10..39)
            /\ (rlCategory = "COLD" <=> rlLead.score < 10)
            /\ rlHubCategory \in {"HOT", "WARM", "QUALIFIED", "COLD"}
            /\ (rlHubCategory = "HOT" <=> rlLead.score >= 85)
            /\ (rlHubCategory = "WARM" <=> rlLead.score \in 60..84)
            /\ (rlHubCategory = "QUALIFIED" <=> rlLead.score \in 40..59)
            /\ (rlHubCategory = "COLD" <=> rlLead.score < 40))
    /\ [][rlOp' = "raised" =>
            /\ CategoryRank(rlCategory') >= CategoryRank(rlCategory)
            /\ CategoryRank(rlHubCategory') >= CategoryRank(rlHubCategory)]_vars

\* the score was raised across the band edge at 40
C8_Witness ==
    /\ rlOp = "raised"
    /\ rlLead.score = 40
    /\ rlCategory = "HOT"
    /\ rlHubCategory = "QUALIFIED"

-----------------------------------------------------------------------------
(* Complete GTM backend: configuration, enrichment data, qualification rules *)

Modes == {"demo", "real"}

\* CLAY_API_KEY, HUBSPOT_API_TOKEN, SLACK_WEBHOOK_URL, ASANA_ACCESS_TOKEN,
\* ZENDESK_TOKEN, DEALHUB_API_KEY: "demo" is the default value of the constant
GtmConfigs ==
    [clay : Modes, hubspot : Modes, slack : Modes,
     asana : Modes, zendesk : Modes, dealhub : Modes]

\* the string `$<n>M`, or another revenue value the provider answered
Revenue(n) == [millions |-> n]
UNDEF_REVENUE == Revenue(UNDEF_NUM)
UNDEF_LIST == <<UNDEF>>

\* const enrichmentResults = {}
enrichmentResults ==
    [seniority |-> UNDEF, department |-> UNDEF, companyRevenue |-> UNDEF_REVENUE,
     technologies |-> UNDEF_LIST, enrichmentSource |-> UNDEF]

\* { ...leadData, ...results }
Spread(l, results) ==
    [isObj |-> TRUE, email |-> l.email, firstName |-> l.firstName,
     jobTitle |-> l.jobTitle, companySize |-> l.companySize,
     industry |-> l.industry, score |-> l.score,
     territory |-> l.territory, assignedRep |-> l.assignedRep,
     seniority |-> results.seniority, department |-> results.department,
     companyRevenue |-> results.companyRevenue,
     technologies |-> results.technologies,
     enrichmentSource |-> results.enrichmentSource,
     hubspotContactId |-> UNDEF]

seniorityRules ==
    <<[label |-> "C-Level",
       needles |-> {<<"c", "e", "o">>,
                   <<"f", "o", "u", "n", "d", "e", "r">>,
                   <<"p", "r", "e", "s", "i", "d", "e", "n", "t">>}],
      [label |-> "C-Level",
       needles |-> {<<"c", "f", "o">>,
                   <<"c", "t", "o">>,
                   <<"c", "m", "o">>}],
      [label |-> "VP",
       needles |-> {<<"v", "p">>,
                   <<"v", "i", "c", "e", " ", "p", "r", "e", "s", "i", "d", "e", "n", "t">>}],
      [label |-> "Director",
       needles |-> {<<"d", "i", "r", "e", "c", "t", "o", "r">>,
                   <<"h", "e", "a", "d", " ", "o", "f">>}],
      [label |-> "Manager",
       needles |-> {<<"m", "a", "n", "a", "g", "e", "r">>,
                   <<"l", "e", "a", "d">>}],
      [label |-> "Senior IC",
       needles |-> {<<"s", "e", "n", "i", "o", "r">>}]>>

departmentRules ==
    <<[label |-> "Finance",
       needles |-> {<<"f", "i", "n", "a", "n", "c", "e">>,
                   <<"c", "f", "o">>,
                   <<"a", "c", "c", "o", "u", "n", "t", "i", "n", "g">>}],
      [label |-> "Engineering",
       needles |-> {<<"e", "n", "g", "i", "n", "e", "e", "r">>,
                   <<"t", "e", "c", "h">>,
                   <<"c", "t", "o">>,
                   <<"d", "e", "v", "e", "l", "o", "p", "e", "r">>}],
      [label |-> "Sales",
       needles |-> {<<"s", "a", "l", "e", "s">>,
                   <<"r", "e", "v", "e", "n", "u", "e">>,
                   <<"a", "c", "c", "o", "u", "n", "t">>}],
      [label |-> "Marketing",
       needles |-> {<<"m", "a", "r", "k", "e", "t", "i", "n", "g">>,
                   <<"c", "m", "o">>,
                   <<"g", "r", "o", "w", "t", "h">>}],
      [label |-> "Operations",
       needles |-> {<<"o", "p", "e", "r", "a", "t", "i", "o", "n", "s">>,
                   <<"c", "o", "o">>,
                   <<"o", "p", "s">>}],
      [label |-> "Product",
       needles |-> {<<"p", "r", "o", "d", "u", "c", "t">>,
                   <<"p", "m">>}]>>

\* (jobTitle || '').toLowerCase()
LowerTitle(jobTitle) ==
    toLowerCase(IF TruthyStr(jobTitle) THEN jobTitle ELSE EmptyStr)

\* label of the first rule one of whose keywords the title includes
FirstRule(rules, title, default) ==
    LET hits == {i \in 1..Len(rules) :
                    \E n \in rules[i].needles : includes(title, n)}
    IN  IF hits = {} THEN default
        ELSE rules[CHOOSE i \in hits : \A j \in hits : i <= j].label

determineSeniority(jobTitle) ==
    FirstRule(seniorityRules, LowerTitle(jobTitle), "Individual Contributor")

determineDepartment(jobTitle) ==
    FirstRule(departmentRules, LowerTitle(jobTitle), "Other")

\* Math.random(): its least value 0, or a value just below 1
MockDraws == {"least", "greatest"}

\* revenueMultipliers[industry] || 1.0, in tenths
revenueMultiplier(industry) ==
    CASE industry = "fintech" -> 15
      [] industry = "finance" -> 20
      [] industry = "technology" -> 13
      [] industry = "healthcare" -> 14
      [] industry = "manufacturing" -> 10
      [] industry = "retail" -> 8
      [] OTHER -> 10

\* baseRevenues[companySize] || [1, 5], in tenths
baseRevenue(companySize) ==
    CASE companySize = "1-10" -> <<5, 20>>
      [] companySize = "11-50" -> <<20, 100>>
      [] companySize = "51-200" -> <<100, 500>>
      [] companySize = "201-1000" -> <<500, 2000>>
      [] companySize = "1000+" -> <<2000, 10000>>
      [] OTHER -> <<10, 50>>

\* Math.floor((Math.random() * (hi - lo) + lo) * multiplier)
estimatedRevenue(industry, companySize, draw) ==
    LET lo == baseRevenue(companySize)[1]
        hi == baseRevenue(companySize)[2]
        m == revenueMultiplier(industry)
    IN  IF draw = "least" THEN (lo * m) \div 100
        ELSE ((hi * m + 99) \div 100) - 1

\* techStacks[industry] || ['Microsoft Office', 'Google Workspace']
techStack(industry) ==
    CASE industry = "fintech" ->
            <<"Stripe", "Plaid", "AWS", "React", "Python", "Kubernetes">>
      [] industry = "finance" ->
            <<"Salesforce", "Oracle", "SAP", "Microsoft Azure", "Java">>
      [] industry = "technology" ->
            <<"AWS", "Docker", "React", "Node.js", "Python", "PostgreSQL">>
      [] industry = "healthcare" ->
            <<"Epic", "AWS", "HIPAA Tools", "React", "Python">>
      [] industry = "manufacturing" ->
            <<"SAP", "Oracle", "Microsoft", "Industrial IoT">>
      [] industry = "retail" ->
            <<"Shopify", "Magento", "Google Analytics", "AWS", "React">>
      [] OTHER -> <<"Microsoft Office", "Google Workspace">>

\* stack.slice(0, Math.floor(Math.random() * 4) + 2)
mockTechnologies(industry, draw) ==
    LET stack == techStack(industry)
        n == IF draw = "least" THEN 2 ELSE 5
    IN  SubSeq(stack, 1, Min(n, Len(stack)))

generateCompanyData(industry, companySize, revenueDraw, techDraw) ==
    [companyRevenue |-> Revenue(estimatedRevenue(industry, companySize, revenueDraw)),
     technologies |-> mockTechnologies(industry, techDraw)]

\* leadData.firstName.toLowerCase() throws a TypeError on a missing name
mockClayEnrichmentThrows(l) == l.firstName = UNDEF

mockClayEnrichment(l, revenueDraw, techDraw) ==
    LET companyData ==
            generateCompanyData(l.industry, l.companySize, revenueDraw, techDraw)
    IN  Spread(l, [seniority |-> determineSeniority(l.jobTitle),
                   department |-> determineDepartment(l.jobTitle),
                   companyRevenue |-> companyData.companyRevenue,
                   technologies |-> companyData.technologies,
                   enrichmentSource |-> "Clay (Simulated)"])

\* answers of the person endpoint with a 2xx status: no data member, a full
\* person, a person without seniority and technologies
ClayPersonAnswers ==
    {[hasData |-> FALSE, seniority |-> UNDEF, department |-> UNDEF,
      company_revenue |-> UNDEF_REVENUE, technologies |-> UNDEF_LIST],
     [hasData |-> TRUE, seniority |-> "VP", department |-> "Finance",
      company_revenue |-> Revenue(12), technologies |-> <<"Stripe">>],
     [hasData |-> TRUE, seniority |-> UNDEF, department |-> UNDEF,
      company_revenue |-> UNDEF_REVENUE, technologies |-> UNDEF_LIST]}

\* answers of the company endpoint with a 2xx status
ClayCompanyAnswers ==
    {[hasData |-> FALSE, revenue |-> UNDEF_REVENUE, tech_stack |-> UNDEF_LIST],
     [hasData |-> TRUE, revenue |-> Revenue(40), tech_stack |-> <<"Shopify">>]}

\* x || []
ListOrEmpty(x) == IF x = UNDEF_LIST THEN << >> ELSE x

\* callClayAPI after a 2xx answer of the person endpoint
personResults(answer) ==
    IF answer.hasData
    THEN [seniority |-> answer.seniority, department |-> answer.department,
          companyRevenue |-> answer.company_revenue,
          technologies |-> ListOrEmpty(answer.technologies),
          enrichmentSource |-> UNDEF]
    ELSE enrichmentResults

\* tryCompanyEnrichment after a 2xx answer of the company endpoint
companyResults(answer) ==
    IF answer.hasData
    THEN [enrichmentResults EXCEPT !.companyRevenue = answer.revenue,
                                   !.technologies = ListOrEmpty(answer.tech_stack)]
    ELSE enrichmentResults

\* leadData.email.split('@') throws a TypeError on a missing email
tryCompanyEnrichmentThrows(l) == l.email = UNDEF

\* createHubSpotContact: if (enrichedLead.score >= 60)
DealQualifiedLoose(e) == e.score >= 59
DealQualified(e) == e.score >= 60

\* sendSlackNotification: if (leadData.score >= 70)
SlackQualified(e) == e.score >= 70

\* const urgencyLevel = leadData.score >= 80 ? 'HIGH PRIORITY' : 'QUALIFIED'
urgencyLevelAbove(score) == IF score > 80 THEN "HIGH PRIORITY" ELSE "QUALIFIED"
urgencyLevel(score) == IF score >= 80 THEN "HIGH PRIORITY" ELSE "QUALIFIED"

\* new Date(): the hour of the day (UTC) at which createAsanaTask runs
TaskHours == {0, 22}

\* getTaskDueDate(score): today.toISOString().split('T')[0] after the clock
\* was moved by 2 hours, 1 day or 3 days, as the number of days from today's
\* date (an ISO date string sorts like its day number)
getTaskDueDateSwapped(score, hour) ==
    IF score >= 80 THEN (hour + 72) \div 24
    ELSE IF score >= 60 THEN (hour + 24) \div 24
    ELSE (hour + 2) \div 24
getTaskDueDate(score, hour) ==
    IF score >= 80 THEN (hour + 2) \div 24
    ELSE IF score >= 60 THEN (hour + 24) \div 24
    ELSE (hour + 72) \div 24

\* createAsanaTask: priority: score >= 80 ? 'urgent' : score >= 60 ? 'high' : 'medium'
taskPriority(score) ==
    IF score >= 80 THEN "urgent" ELSE IF score >= 60 THEN "high" ELSE "medium"

\* Step 6: if (enrichedLead.score >= 60)
ZendeskQualifiedAbove(e) == e.score > 60
ZendeskQualified(e) == e.score >= 60

\* Step 7: if (enrichedLead.score >= 70 && enrichedLead.territory === 'Enterprise Team')
DealHubQualifiedAnyTerritory(e) == e.score >= 70
DealHubQualified(e) == e.score >= 70 /\ e.territory = "Enterprise Team"

\* the steps of the handler in program order
\* an order with the Asana step ahead of the Slack step
StepOrderAsanaFirst ==
    <<"territory", "enrich", "hubspot", "asana", "slack", "zendesk",
      "dealhub", "respond">>

StepOrder ==
    <<"territory", "enrich", "hubspot", "slack", "asana", "zendesk",
      "dealhub", "respond">>

Successor(step) ==
    StepOrder[(CHOOSE i \in 1..Len(StepOrder) : StepOrder[i] = step) + 1]

\* where the handler goes after a step of Steps 3-7: each of them sits in a
\* try/catch of its own, so the next step follows whether the step failed or not
AfterStepAborting(step, failed) == IF failed THEN "failed" ELSE Successor(step)
AfterStepRetrying(step, failed) == IF failed THEN step ELSE Successor(step)
AfterStep(step, failed) == Successor(step)

\* what the server saw of a request: a 2xx answer, a 409, another status or
\* no answer at all
Observed(outcome) ==
    CASE outcome = "ok" -> "ok"
      [] outcome = "conflict" -> "conflict"
      [] OTHER -> "failed"

Outcomes == {"ok", "non2xx", "throw"}

NoResults ==
    [contact |-> "null", slack |-> "false", asana |-> "false",
     zendesk |-> "false", dealhub |-> "false", errors |-> << >>]

NoResponse == [status |-> 0]

GtmScores == {UNDEF_NUM, 0, 59, 60, 69, 70, 79, 80}

GtmCompanies ==
    {[companySize |-> "1000+", industry |-> "retail"],
     [companySize |-> "51-200", industry |-> "fintech"],
     [companySize |-> "1-10", industry |-> UNDEF]}

GtmPeople ==
    {[email |-> "sarah@acme.com", firstName |-> "Sarah", jobTitle |-> Str_CFO],
     [email |-> UNDEF, firstName |-> "Alex", jobTitle |-> UNDEF_STR],
     [email |-> "sam@acme.com", firstName |-> UNDEF, jobTitle |-> Str_VPFinance]}

\* a request body without leadData
NoLeadData ==
    [isObj |-> FALSE, email |-> UNDEF, firstName |-> UNDEF, jobTitle |-> UNDEF_STR,
     companySize |-> UNDEF, industry |-> UNDEF, score |-> UNDEF_NUM,
     territory |-> UNDEF, assignedRep |-> UNDEF]

GtmLeads ==
    {[isObj |-> TRUE, email |-> p.email, firstName |-> p.firstName,
      jobTitle |-> p.jobTitle, companySize |-> c.companySize,
      industry |-> c.industry, score |-> s,
      territory |-> UNDEF, assignedRep |-> UNDEF] :
        p \in GtmPeople, c \in GtmCompanies, s \in GtmScores}
    \cup {NoLeadData}

-----------------------------------------------------------------------------
(* Complete GTM backend: POST /api/hubspot/contacts, one request *)

InitGtm ==
    /\ IdleScore
    /\ IdleRules
    /\ IdleAgent
    /\ gCfg \in GtmConfigs
    /\ gLead \in GtmLeads
    /\ gEnriched = NoLeadData
    /\ gPc = "territory"
    /\ gResults = NoResults
    /\ gResponse = NoResponse
    /\ gCalls = << >>
    /\ gSteps = << >>

\* makeRequest(...) is called: the request is on its way
Issue(to) == Append(gCalls, [to |-> to, result |-> "pending"])

\* the promise of the latest request settles
Settle(outcome) == [gCalls EXCEPT ![Len(gCalls)].result = Observed(outcome)]

\* Step 1: assignTerritory(leadData); it reads leadData.companySize, which
\* throws a TypeError into the handler's catch when the body has no leadData
GtmTerritory ==
    /\ gPc = "territory"
    /\ gSteps' = Append(gSteps, "assignTerritory")
    /\ IF ~gLead.isObj
       THEN /\ gPc' = "failed"
            /\ UNCHANGED gLead
       ELSE /\ gLead' = [gLead EXCEPT
                            !.territory = assignTerritory(gLead).territory,
                            !.assignedRep = assignTerritory(gLead).assignedRep]
            /\ gPc' = "enrich"
    /\ UNCHANGED <<gCfg, gEnriched, gResults, gResponse, gCalls>>
    /\ UNCHANGED <<scoreVars, ruleVars, agentVars>>

\* Step 2: enrichWithClay(leadData) up to its first await
GtmEnrich ==
    /\ gPc = "enrich"
    /\ gSteps' = Append(gSteps, "enrichWithClay")
    /\ IF gCfg.clay = "demo"
       THEN IF mockClayEnrichmentThrows(gLead)
            THEN /\ gPc' = "failed"
                 /\ UNCHANGED <<gEnriched, gCalls>>
            ELSE /\ \E revenueDraw \in MockDraws, techDraw \in MockDraws :
                        gEnriched' = mockClayEnrichment(gLead, revenueDraw, techDraw)
                 /\ gPc' = "hubspot"
                 /\ UNCHANGED gCalls
       ELSE /\ gCalls' = Issue("clay.person")
            /\ gPc' = "enrich.person"
            /\ UNCHANGED gEnriched
    /\ UNCHANGED <<gCfg, gLead, gResults, gResponse>>
    /\ UNCHANGED <<scoreVars, ruleVars, agentVars>>

\* callClayAPI after the person request settled.  Its try/catch takes every
\* failure, so the catch of enrichWithClay (mock data) is never entered.
GtmClayPersonReturn ==
    /\ gPc = "enrich.person"
    /\ \E outcome \in Outcomes :
        CASE outcome = "ok" ->
                /\ \E answer \in ClayPersonAnswers :
                        gEnriched' = Spread(gLead, personResults(answer))
                /\ gCalls' = Settle(outcome)
                /\ gPc' = "hubspot"
          [] outcome = "non2xx" ->
                IF tryCompanyEnrichmentThrows(gLead)
                THEN /\ gEnriched' = Spread(gLead, enrichmentResults)
                     /\ gCalls' = Settle(outcome)
                     /\ gPc' = "hubspot"
                ELSE /\ gCalls' = Append(Settle(outcome),
                                         [to |-> "clay.company", result |-> "pending"])
                     /\ gPc' = "enrich.company"
                     /\ UNCHANGED gEnriched
          [] outcome = "throw" ->
                /\ gEnriched' = Spread(gLead, enrichmentResults)
                /\ gCalls' = Settle(outcome)
                /\ gPc' = "hubspot"
    /\ UNCHANGED <<gCfg, gLead, gResults, gResponse, gSteps>>
    /\ UNCHANGED <<scoreVars, ruleVars, agentVars>>

\* tryCompanyEnrichment after the company request settled
GtmClayCompanyReturn ==
    /\ gPc = "enrich.company"
    /\ \E outcome \in Outcomes :
        /\ IF outcome = "ok"
           THEN \E answer \in ClayCompanyAnswers :
                    gEnriched' = Spread(gLead, companyResults(answer))
           ELSE gEnriched' = Spread(gLead, enrichmentResults)
        /\ gCalls' = Settle(outcome)
    /\ gPc' = "hubspot"
    /\ UNCHANGED <<gCfg, gLead, gResults, gResponse, gSteps>>
    /\ UNCHANGED <<scoreVars, ruleVars, agentVars>>

\* Step 3: createHubSpotContact(enrichedLead) up to its first await
GtmHubSpot ==
    /\ gPc = "hubspot"
    /\ gSteps' = Append(gSteps, "createHubSpotContact")
    /\ IF gCfg.hubspot = "demo"
       THEN /\ gEnriched' = [gEnriched EXCEPT !.hubspotContactId = "demo-contact"]
            /\ gResults' = [gResults EXCEPT !.contact = "demo-contact"]
            /\ gPc' = AfterStep("hubspot", FALSE)
            /\ UNCHANGED gCalls
       ELSE /\ gCalls' = Issue("hubspot.contact")
            /\ gPc' = "hubspot.contact"
            /\ UNCHANGED <<gEnriched, gResults>>
    /\ UNCHANGED <<gCfg, gLead, gResponse>>
    /\ UNCHANGED <<scoreVars, ruleVars, agentVars>>

\* createHubSpotContact after the contact request settled
GtmHubSpotContactReturn ==
    /\ gPc = "hubspot.contact"
    /\ \E outcome \in Outcomes \cup {"conflict"} :
        CASE outcome = "ok" ->
                IF DealQualified(gEnriched)
                THEN /\ gCalls' = Append(Settle(outcome),
                                         [to |-> "hubspot.deal", result |-> "pending"])
                     /\ gSteps' = Append(gSteps, "createHubSpotDeal")
                     /\ gPc' = "hubspot.deal"
                     /\ UNCHANGED <<gEnriched, gResults>>
                ELSE /\ gCalls' = Settle(outcome)
                     /\ gEnriched' = [gEnriched EXCEPT !.hubspotContactId = "contact"]
                     /\ gResults' = [gResults EXCEPT !.contact = "contact"]
                     /\ gPc' = AfterStep("hubspot", FALSE)
                     /\ UNCHANGED gSteps
          [] outcome = "conflict" ->
                /\ gCalls' = Settle(outcome)
                /\ gEnriched' = [gEnriched EXCEPT !.hubspotContactId = "existing-contact"]
                /\ gResults' = [gResults EXCEPT !.contact = "existing-contact"]
                /\ gPc' = AfterStep("hubspot", FALSE)
                /\ UNCHANGED gSteps
          [] outcome = "non2xx" ->
                /\ gCalls' = Settle(outcome)
                /\ gResults' = [gResults EXCEPT
                        !.errors = Append(@, "HubSpot: HubSpot API error")]
                /\ gPc' = AfterStep("hubspot", TRUE)
                /\ UNCHANGED <<gEnriched, gSteps>>
          [] outcome = "throw" ->
                /\ gCalls' = Settle(outcome)
                /\ gResults' = [gResults EXCEPT
                        !.errors = Append(@, "HubSpot: request error")]
                /\ gPc' = AfterStep("hubspot", TRUE)
                /\ UNCHANGED <<gEnriched, gSteps>>
    /\ UNCHANGED <<gCfg, gLead, gResponse>>
    /\ UNCHANGED <<scoreVars, ruleVars, agentVars>>

\* createHubSpotDeal after the deal request settled: the result is only
\* logged, createHubSpotContact returns the created contact
GtmHubSpotDealReturn ==
    /\ gPc = "hubspot.deal"
    /\ \E outcome \in Outcomes : gCalls' = Settle(outcome)
    /\ gEnriched' = [gEnriched EXCEPT !.hubspotContactId = "contact"]
    /\ gResults' = [gResults EXCEPT !.contact = "contact"]
    /\ gPc' = AfterStep("hubspot", FALSE)
    /\ UNCHANGED <<gCfg, gLead, gResponse, gSteps>>
    /\ UNCHANGED <<scoreVars, ruleVars, agentVars>>

\* Step 4: sendSlackNotification(enrichedLead) up to its first await
GtmSlack ==
    /\ gPc = "slack"
    /\ gSteps' = Append(gSteps, "sendSlackNotification")
    /\ IF gCfg.slack = "demo"
       THEN /\ gResults' = [gResults EXCEPT !.slack = "true"]
            /\ gPc' = AfterStep("slack", FALSE)
            /\ UNCHANGED gCalls
       ELSE IF SlackQualified(gEnriched)
            THEN /\ gCalls' = Append(gCalls,
                                [to |-> "slack", result |-> "pending",
                                 urgencyLevel |-> urgencyLevel(gEnriched.score)])
                 /\ gPc' = "slack.wait"
                 /\ UNCHANGED gResults
            ELSE /\ gResults' = [gResults EXCEPT !.slack = "undefined"]
                 /\ gPc' = AfterStep("slack", FALSE)
                 /\ UNCHANGED gCalls
    /\ UNCHANGED <<gCfg, gLead, gEnriched, gResponse>>
    /\ UNCHANGED <<scoreVars, ruleVars, agentVars>>

\* sendSlackNotification after the webhook request settled
GtmSlackReturn ==
    /\ gPc = "slack.wait"
    /\ \E outcome \in Outcomes :
        /\ gCalls' = Settle(outcome)
        /\ gResults' = [gResults EXCEPT
                !.slack = IF outcome = "ok" THEN "true" ELSE "false"]
        /\ gPc' = AfterStep("slack", outcome /= "ok")
    /\ UNCHANGED <<gCfg, gLead, gEnriched, gResponse, gSteps>>
    /\ UNCHANGED <<scoreVars, ruleVars, agentVars>>

\* Step 5: createAsanaTask(enrichedLead) up to its first await
GtmAsana ==
    /\ gPc = "asana"
    /\ gSteps' = Append(gSteps, "createAsanaTask")
    /\ IF gCfg.asana = "demo"
       THEN /\ gResults' = [gResults EXCEPT !.asana = "true"]
            /\ gPc' = AfterStep("asana", FALSE)
            /\ UNCHANGED gCalls
       ELSE /\ \E hour \in TaskHours :
                    gCalls' = Append(gCalls,
                                [to |-> "asana", result |-> "pending", at |-> hour,
                                 due_on |-> getTaskDueDate(gEnriched.score, hour),
                                 priority |-> taskPriority(gEnriched.score)])
            /\ gPc' = "asana.wait"
            /\ UNCHANGED gResults
    /\ UNCHANGED <<gCfg, gLead, gEnriched, gResponse>>
    /\ UNCHANGED <<scoreVars, ruleVars, agentVars>>

\* createAsanaTask after the task request settled: !!asanaTask
GtmAsanaReturn ==
    /\ gPc = "asana.wait"
    /\ \E outcome \in Outcomes :
        /\ gCalls' = Settle(outcome)
        /\ gResults' = [gResults EXCEPT
                !.asana = IF outcome = "ok" THEN "true" ELSE "false"]
        /\ gPc' = AfterStep("asana", outcome /= "ok")
    /\ UNCHANGED <<gCfg, gLead, gEnriched, gResponse, gSteps>>
    /\ UNCHANGED <<scoreVars, ruleVars, agentVars>>

\* Step 6: createZendeskTicket(enrichedLead) for a qualified lead
GtmZendesk ==
    /\ gPc = "zendesk"
    /\ IF ~ZendeskQualified(gEnriched)
       THEN /\ gPc' = Successor("zendesk")
            /\ UNCHANGED <<gResults, gCalls, gSteps>>
       ELSE /\ gSteps' = Append(gSteps, "createZendeskTicket")
            /\ IF gCfg.zendesk = "demo"
               THEN /\ gResults' = [gResults EXCEPT !.zendesk = "true"]
                    /\ gPc' = AfterStep("zendesk", FALSE)
                    /\ UNCHANGED gCalls
               ELSE /\ gCalls' = Issue("zendesk")
                    /\ gPc' = "zendesk.wait"
                    /\ UNCHANGED gResults
    /\ UNCHANGED <<gCfg, gLead, gEnriched, gResponse>>
    /\ UNCHANGED <<scoreVars, ruleVars, agentVars>>

\* createZendeskTicket after the ticket request settled: !!zendeskTicket
GtmZendeskReturn ==
    /\ gPc = "zendesk.wait"
    /\ \E outcome \in Outcomes :
        /\ gCalls' = Settle(outcome)
        /\ gResults' = [gResults EXCEPT
                !.zendesk = IF outcome = "ok" THEN "true" ELSE "false"]
        /\ gPc' = AfterStep("zendesk", outcome /= "ok")
    /\ UNCHANGED <<gCfg, gLead, gEnriched, gResponse, gSteps>>
    /\ UNCHANGED <<scoreVars, ruleVars, agentVars>>

\* Step 7: createDealHubQuote(enrichedLead) for an enterprise lead
GtmDealHub ==
    /\ gPc = "dealhub"
    /\ IF ~DealHubQualified(gEnriched)
       THEN /\ gPc' = Successor("dealhub")
            /\ UNCHANGED <<gResults, gCalls, gSteps>>
       ELSE /\ gSteps' = Append(gSteps, "createDealHubQuote")
            /\ IF gCfg.dealhub = "demo"
               THEN /\ gResults' = [gResults EXCEPT !.dealhub = "true"]
                    /\ gPc' = AfterStep("dealhub", FALSE)
                    /\ UNCHANGED gCalls
               ELSE /\ gCalls' = Issue("dealhub")
                    /\ gPc' = "dealhub.wait"
                    /\ UNCHANGED gResults
    /\ UNCHANGED <<gCfg, gLead, gEnriched, gResponse>>
    /\ UNCHANGED <<scoreVars, ruleVars, agentVars>>

\* createDealHubQuote after the quote request settled: !!dealHubQuote
GtmDealHubReturn ==
    /\ gPc = "dealhub.wait"
    /\ \E outcome \in Outcomes :
        /\ gCalls' = Settle(outcome)
        /\ gResults' = [gResults EXCEPT
                !.dealhub = IF outcome = "ok" THEN "true" ELSE "false"]
        /\ gPc' = AfterStep("dealhub", outcome /= "ok")
    /\ UNCHANGED <<gCfg, gLead, gEnriched, gResponse, gSteps>>
    /\ UNCHANGED <<scoreVars, ruleVars, agentVars>>

\* res.json({ success: true, ... })
GtmRespond ==
    /\ gPc = "respond"
    /\ gResponse' =
         [status |-> 200, success |-> TRUE,
          contact |-> gResults.contact,
          enrichmentData |->
             [seniority |-> gEnriched.seniority,
              department |-> gEnriched.department,
              companyRevenue |-> gEnriched.companyRevenue,
              technologies |-> gEnriched.technologies,
              territory |-> gEnriched.territory,
              assignedRep |-> gEnriched.assignedRep],
          automation |->
             [slack |-> gResults.slack, asana |-> gResults.asana,
              zendesk |-> gResults.zendesk, dealhub |-> gResults.dealhub],
          errors |-> gResults.errors,
          slackNotified |-> gResults.slack,
          pipeline |->
             [hubspot |-> gResults.contact /= "null", clay |-> TRUE,
              slack |-> gResults.slack, asana |-> gResults.asana,
              zendesk |-> gResults.zendesk, dealhub |-> gResults.dealhub]]
    /\ gPc' = "done"
    /\ UNCHANGED <<gCfg, gLead, gEnriched, gResults, gCalls, gSteps>>
    /\ UNCHANGED <<scoreVars, ruleVars, agentVars>>

\* the catch of the handler: res.status(500).json({ success: false, ... })
GtmError ==
    /\ gPc = "failed"
    /\ gResponse' = [status |-> 500, success |-> FALSE]
    /\ gPc' = "done"
    /\ UNCHANGED <<gCfg, gLead, gEnriched, gResults, gCalls, gSteps>>
    /\ UNCHANGED <<scoreVars, ruleVars, agentVars>>

NextGtm ==
    \/ GtmTerritory
    \/ GtmEnrich
    \/ GtmClayPersonReturn
    \/ GtmClayCompanyReturn
    \/ GtmHubSpot
    \/ GtmHubSpotContactReturn
    \/ GtmHubSpotDealReturn
    \/ GtmSlack
    \/ GtmSlackReturn
    \/ GtmAsana
    \/ GtmAsanaReturn
    \/ GtmZendesk
    \/ GtmZendeskReturn
    \/ GtmDealHub
    \/ GtmDealHubReturn
    \/ GtmRespond
    \/ GtmError

SpecGtm == InitGtm /\ [][NextGtm]_vars

-----------------------------------------------------------------------------
(* GTM automation server: data of POST /api/leads and GTMAgent.processLead *)

\* clay: the module loaded and CLAY_API_KEY is set to a real key;
\* hubspot: the module loaded and HUBSPOT_API_KEY is set to a real key;
\* email: EMAIL_USER and EMAIL_PASS are set (transporter);
\* slack: SLACK_WEBHOOK_URL is set
AgentConfigs ==
    [clay : {"mock", "real"}, hubspot : {"off", "real"},
     email : {"off", "real"}, slack : {"off", "real"}]

NoRequest == 0

\* keys of the Maps leads, enrichedData and campaigns: leadData.email
Keys == {"ann@acme.com", "bob@corp.com", UNDEF}

\* req.body.title || req.body.jobtitle || '' and the like
StrOrEmpty(s) == IF TruthyStr(s) THEN s ELSE EmptyStr

\* const leadData = { id, email: req.body.email, ..., ...req.body }
buildLeadData(id, body) ==
    [id |-> id, email |-> body.email, title |-> StrOrEmpty(body.title),
     industry |-> StrOrEmpty(body.industry), company |-> body.company,
     score |-> UNDEF_NUM, category |-> UNDEF]

NoLeadRecord ==
    [id |-> NoRequest, email |-> UNDEF, title |-> EmptyStr, industry |-> EmptyStr,
     company |-> "", score |-> UNDEF_NUM, category |-> UNDEF]

\* the Math.random() values of one run: each at its least value 0, or each
\* just below 1
AgentDraws == {"least", "greatest"}

\* Math.floor(Math.random() * n) + base
RandomInt(draw, n, base) == IF draw = "least" THEN base ELSE base + n - 1

\* list[Math.floor(Math.random() * list.length)]
RandomPick(draw, list) == IF draw = "least" THEN list[1] ELSE list[Len(list)]

\* Math.random() > p
RandomAbove(draw) == draw = "greatest"

Str_MarketingAgency ==
    <<"M", "a", "r", "k", "e", "t", "i", "n", "g", " ", "A", "g", "e", "n", "c", "y">>

mockIndustries ==
    <<Str_B2BSaaS, Str_Ecommerce, Str_ProfessionalServices, Str_MarketingAgency>>

\* companyName.toLowerCase() / leadData.company.toLowerCase() throws a
\* TypeError when the company of the body is not a string
CompanyIsString(company) == company /= "42"

\* GTMAgent.getMockEnrichment
getMockEnrichment(leadData, draw) ==
    [isObj |-> TRUE,
     person |-> [isObj |-> TRUE,
                 title |-> IF TruthyStr(leadData.title) THEN leadData.title
                           ELSE Str_VPFinance],
     company |-> [isObj |-> TRUE,
                  industry |-> IF TruthyStr(leadData.industry) THEN leadData.industry
                               ELSE RandomPick(draw, mockIndustries),
                  employees |-> RandomInt(draw, 400, 10),
                  revenue |-> RandomInt(draw, 50000000, 2000000),
                  technologies |->
                      SubSeq(<<Str_Salesforce, Str_QuickBooks, Str_Stripe,
                               Str_HubSpot, Str_Shopify>>,
                             1, RandomInt(draw, 3, 1))],
     intent |-> [isObj |-> TRUE, signalStrength |-> "high"],
     technologies |-> UNDEF_ARR,
     source |-> UNDEF]

\* answers of POST /enrich/person with a 2xx status (response.data)
AgentPersonAnswers == {[title |-> UNDEF_STR], [title |-> Str_CFO]}

\* ClayIntegration.enrichPerson after a 2xx answer: personData.person
enrichPerson(data) == [isObj |-> TRUE, title |-> StrOrEmpty(data.title)]

\* ClayIntegration.getMockPersonData(...).person
getMockPersonData(draw) ==
    [isObj |-> TRUE,
     title |-> RandomPick(draw, <<Str_CEO, Str_CFO, Str_VPFinance, Str_Controller>>)]

\* answers of POST /enrich/company with a 2xx status (response.data)
AgentCompanyAnswers ==
    {[industry |-> UNDEF_STR, employee_count |-> UNDEF_NUM,
      estimated_revenue |-> UNDEF_NUM, technologies |-> UNDEF_ARR],
     [industry |-> UNDEF_STR, employee_count |-> 200,
      estimated_revenue |-> 3000000, technologies |-> UNDEF_ARR]}

\* ClayIntegration.enrichCompany after a 2xx answer
enrichCompany(data) ==
    [isObj |-> TRUE, industry |-> StrOrEmpty(data.industry),
     employees |-> NumOrZero(data.employee_count),
     revenue |-> NumOrZero(data.estimated_revenue),
     technologies |-> IF TruthyArr(data.technologies) THEN data.technologies
                      ELSE << >>]

\* ClayIntegration.getMockCompanyData
getMockCompanyData(draw) ==
    [isObj |-> TRUE, industry |-> RandomPick(draw, mockIndustries),
     employees |-> RandomInt(draw, 400, 10),
     revenue |-> RandomInt(draw, 50000000, 2000000),
     technologies |->
         SubSeq(<<Str_Salesforce, Str_QuickBooks, Str_Stripe, Str_HubSpot,
                  Str_Shopify, Str_NetSuite>>,
                1, RandomInt(draw, 3, 1))]

\* the signals of getIntentSignals: hiring 20, funding 25, technology 15,
\* growth 15, each present when its Math.random() exceeds its level
intentSignalScores(draw) ==
    IF RandomAbove(draw) THEN <<20, 25, 15, 15>> ELSE << >>

Sum(seq) ==
    LET RECURSIVE S(_)
        S(i) == IF i = 0 THEN 0 ELSE seq[i] + S(i - 1)
    IN  S(Len(seq))

\* ClayIntegration.calculateSignalStrength
calculateSignalStrength(signalScores) ==
    LET totalScore == Sum(signalScores)
    IN  IF totalScore >= 50 THEN "very_high"
        ELSE IF totalScore >= 35 THEN "high"
        ELSE IF totalScore >= 20 THEN "medium"
        ELSE IF totalScore > 0 THEN "low"
        ELSE "none"

getIntentSignals(draw) ==
    [isObj |-> TRUE,
     signalStrength |-> calculateSignalStrength(intentSignalScores(draw))]

\* const enrichedData = {} of ClayIntegration.enrichLead
NotEnriched ==
    [isObj |-> TRUE, person |-> NoPerson, company |-> NoCompany,
     intent |-> NoIntent, technologies |-> UNDEF_ARR, source |-> UNDEF]

\* processLead: if (score >= 40)
AgentDealQualifiedAnyScore(score) == score >= 0
AgentDealQualified(score) == score >= 40

NoAgentResponse == [status |-> 0]

\* the handler before the request has arrived
Arriving(id, body) ==
    [pc |-> "arrive", body |-> body, leadData |-> buildLeadData(id, body),
     enriched |-> NotEnriched, actions |-> << >>, calls |-> << >>,
     found |-> FALSE, response |-> NoAgentResponse]

AgentBodies ==
    {[email |-> "ann@acme.com", title |-> Str_CFO, industry |-> Str_SaaS,
      company |-> "Acme"],
     [email |-> "ann@acme.com", title |-> Str_Analyst, industry |-> Str_fintech,
      company |-> "Acme"],
     [email |-> UNDEF, title |-> UNDEF_STR, industry |-> UNDEF_STR,
      company |-> "Acme"],
     [email |-> "bob@corp.com", title |-> UNDEF_STR, industry |-> UNDEF_STR,
      company |-> "42"]}

\* no second submission
NoBody ==
    [email |-> UNDEF, title |-> UNDEF_STR, industry |-> UNDEF_STR, company |-> ""]

Absent == [Arriving(NoRequest, NoBody) EXCEPT !.pc = "absent"]

EmptyStore ==
    [leads |-> [k \in Keys |-> NoRequest],
     enrichedData |-> [k \in Keys |-> NoRequest],
     campaigns |-> [k \in Keys |-> NoRequest],
     emailQueue |-> << >>]

-----------------------------------------------------------------------------
(* GTM automation server: POST /api/leads, up to two submissions in flight. *)
(* A handler runs without interruption from one awaited request to the      *)
(* next; s = [q |-> the handler's own data, st |-> the in-memory database]. *)

Push(q, action) == [q EXCEPT !.actions = Append(@, action)]

\* axios.post / patch / put is called: the request is on its way
Call(q, to, note) ==
    [q EXCEPT !.calls = Append(@, [to |-> to, result |-> "pending", note |-> note])]

\* the promise of the latest request settles; axios rejects on a non-2xx
\* status as on a network error
Settled(q, outcome) ==
    [q EXCEPT !.calls[Len(q.calls)].result =
                    IF outcome = "ok" THEN "ok" ELSE "failed"]

At(s, pc) == [s EXCEPT !.q.pc = pc]

\* a handler that keeps the lead already stored under the email
BeginKeepingFirst(s) ==
    LET st == [s.st EXCEPT !.leads[s.q.leadData.email] =
                    IF @ = NoRequest THEN s.q.leadData.id ELSE @]
    IN  IF aCfg.clay = "real"
        THEN [q |-> [Call(s.q, "clay.person", "") EXCEPT !.pc = "clay.person"],
              st |-> st, crm |-> s.crm]
        ELSE [q |-> [s.q EXCEPT !.pc = "mock"], st |-> st, crm |-> s.crm]

\* the handler of POST /api/leads: leads.set(leadData.email, leadData), then
\* processLead Step 1
Begin(s) ==
    LET st == [s.st EXCEPT !.leads[s.q.leadData.email] = s.q.leadData.id]
    IN  IF aCfg.clay = "real"
        THEN [q |-> [Call(s.q, "clay.person", "") EXCEPT !.pc = "clay.person"],
              st |-> st, crm |-> s.crm]
        ELSE [q |-> [s.q EXCEPT !.pc = "mock"], st |-> st, crm |-> s.crm]

\* enriched = this.getMockEnrichment(leadData)
MockStep(s, draw) ==
    IF ~CompanyIsString(s.q.leadData.company)
    THEN At(s, "failed")
    ELSE [s EXCEPT !.q.enriched = getMockEnrichment(s.q.leadData, draw),
                   !.q.pc = "enriched"]

\* enrichLead after the person request settled, up to the company request
AfterPerson(s, outcome, answer, draw) ==
    LET q == Settled(s.q, outcome)
    IN  IF outcome = "ok"
        THEN [s EXCEPT !.q = [Call(q, "clay.company", "") EXCEPT
                                !.enriched.person = enrichPerson(answer),
                                !.pc = "clay.company"]]
        ELSE IF ~CompanyIsString(q.leadData.company)
        THEN [s EXCEPT !.q = [q EXCEPT !.pc = "failed"]]
        ELSE [s EXCEPT !.q = [Call(q, "clay.company", "") EXCEPT
                                !.enriched.person = getMockPersonData(draw),
                                !.pc = "clay.company"]]

\* enrichLead after the company request settled: intent signals, metadata
AfterCompany(s, outcome, answer, draw) ==
    LET q == Settled(s.q, outcome)
    IN  IF outcome /= "ok" /\ ~CompanyIsString(q.leadData.company)
        THEN [s EXCEPT !.q = [q EXCEPT !.pc = "failed"]]
        ELSE [s EXCEPT !.q = [q EXCEPT
                !.enriched.company = IF outcome = "ok" THEN enrichCompany(answer)
                                     ELSE getMockCompanyData(draw),
                !.enriched.intent = getIntentSignals(draw),
                !.enriched.source = "clay_api",
                !.pc = "enriched"]]

\* enrichedData.set(...), Step 2 (score, category), Step 3 up to the search
\* request of createOrUpdateContact
ScoreStep(s) ==
    LET score == calculateLeadScore(s.q.leadData, s.q.enriched).value
        q == [Push(Push(s.q, "enriched"), "scored") EXCEPT
                !.leadData.score = score,
                !.leadData.category = categorizeLead(score)]
        st == [s.st EXCEPT !.enrichedData[q.leadData.email] = q.leadData.id]
    IN  IF aCfg.hubspot = "real"
        THEN [q |-> [Call(q, "hubspot.search", "") EXCEPT !.pc = "hubspot.search"],
              st |-> st, crm |-> s.crm]
        ELSE [q |-> [q EXCEPT !.pc = "campaign"], st |-> st, crm |-> s.crm]

\* createOrUpdateContact after searchContact returned (null on an error)
AfterSearch(s, outcome, found) ==
    LET q == [Settled(s.q, outcome) EXCEPT !.found = (outcome = "ok" /\ found)]
    IN  [s EXCEPT !.q = [Call(q, IF q.found THEN "hubspot.update"
                                 ELSE "hubspot.create",
                              getCategory(q.leadData.score))
                         EXCEPT !.pc = "hubspot.write"]]

\* the contacts of HubSpot after the write request of s succeeded
Written(s) ==
    IF s.q.calls[Len(s.q.calls)].to = "hubspot.create"
    THEN s.crm \cup {s.q.leadData.email}
    ELSE s.crm

\* processLead after createOrUpdateContact returned or threw
AfterWrite(s, outcome) ==
    LET q == Settled(s.q, outcome)
    IN  IF outcome /= "ok"
        THEN [s EXCEPT !.q = [q EXCEPT !.pc = "campaign"]]
        ELSE IF AgentDealQualified(q.leadData.score)
        THEN [s EXCEPT !.q = [Call(Push(q, "synced_hubspot"), "hubspot.deal", "")
                              EXCEPT !.pc = "hubspot.deal"],
                       !.crm = Written(s)]
        ELSE [s EXCEPT !.q = [Push(q, "synced_hubspot") EXCEPT !.pc = "campaign"],
                       !.crm = Written(s)]

\* createDeal after the deal request settled
AfterDeal(s, outcome) ==
    LET q == Settled(s.q, outcome)
    IN  IF outcome = "ok"
        THEN [s EXCEPT !.q = [Call(q, "hubspot.association", "") EXCEPT
                                !.pc = "hubspot.association"]]
        ELSE [s EXCEPT !.q = [Push(q, "deal_created") EXCEPT !.pc = "campaign"]]

\* createDeal after associateDealWithContact returned
AfterAssociation(s, outcome) ==
    [s EXCEPT !.q = [Push(Settled(s.q, outcome), "deal_created") EXCEPT
                        !.pc = "campaign"]]

\* Step 4: the campaign of the category
CampaignStep(s) ==
    LET q == s.q
    IN  CASE q.leadData.category = "HOT" ->
                IF aCfg.email = "real"
                THEN [s EXCEPT !.q = [Call(q, "email", "") EXCEPT !.pc = "email"]]
                ELSE [s EXCEPT
                        !.st.emailQueue = Append(@, q.leadData.id),
                        !.q = [Push(q, "hot_lead_campaign_triggered") EXCEPT
                                    !.pc = "notify"]]
          [] q.leadData.category = "WARM" ->
                [s EXCEPT
                    !.st.campaigns[q.leadData.email] = q.leadData.id,
                    !.q = [Push(q, "nurture_campaign_triggered") EXCEPT
                                !.pc = "notify"]]
          [] OTHER -> At(s, "notify")

\* triggerHotLeadCampaign after sendMail settled
AfterEmail(s, outcome) ==
    [s EXCEPT !.st.emailQueue = Append(@, s.q.leadData.id),
              !.q = [Push(Settled(s.q, outcome), "hot_lead_campaign_triggered")
                     EXCEPT !.pc = "notify"]]

\* sendSlackNotification(category, leadData, score)
NotifyStep(s) ==
    IF aCfg.slack = "real"
    THEN [s EXCEPT !.q = [Call(s.q, "slack", s.q.leadData.category) EXCEPT
                            !.pc = "slack"]]
    ELSE At(s, "notified")

AfterSlack(s, outcome) == [s EXCEPT !.q = [Settled(s.q, outcome) EXCEPT !.pc = "notified"]]

\* processLead after sendSlackNotification returned
NotifiedStep(s) ==
    IF s.q.leadData.category = "COLD"
    THEN [s EXCEPT !.q = [Push(s.q, "cold_lead_logged") EXCEPT !.pc = "respond"]]
    ELSE At(s, "respond")

\* res.json({ success: true, ... })
RespondStep(s) ==
    [s EXCEPT !.q.response =
                [status |-> 200, success |-> TRUE,
                 score |-> s.q.leadData.score,
                 category |-> s.q.leadData.category,
                 actions |-> s.q.actions],
              !.q.pc = "done"]

\* the catch of the handler: res.status(500).json({ success: false, ... })
ErrorStep(s) ==
    [s EXCEPT !.q.response = [status |-> 500, success |-> FALSE],
              !.q.pc = "done"]

SyncPcs ==
    {"mock", "enriched", "campaign", "notify", "notified", "respond", "failed"}

SyncStep(s, draw) ==
    CASE s.q.pc = "mock" -> MockStep(s, draw)
      [] s.q.pc = "enriched" -> ScoreStep(s)
      [] s.q.pc = "campaign" -> CampaignStep(s)
      [] s.q.pc = "notify" -> NotifyStep(s)
      [] s.q.pc = "notified" -> NotifiedStep(s)
      [] s.q.pc = "respond" -> RespondStep(s)
      [] s.q.pc = "failed" -> ErrorStep(s)

\* run the handler up to its next awaited request, or to its end
RECURSIVE Run(_, _)
Run(s, draw) == IF s.q.pc \in SyncPcs THEN Run(SyncStep(s, draw), draw) ELSE s

Now(r) == [q |-> aReq[r], st |-> aStore, crm |-> aCrm]

Becomes(r, s) ==
    /\ aReq' = [aReq EXCEPT ![r] = s.q]
    /\ aStore' = s.st
    /\ aCrm' = s.crm
    /\ UNCHANGED <<aCfg, aGet>>
    /\ UNCHANGED <<scoreVars, ruleVars, gtmVars>>

\* no GET /api/leads/:email so far
NoGet == [email |-> UNDEF, status |-> 0]

\* the emails GET /api/leads/:email is called with
GetEmails == Keys \ {UNDEF}

\* a handler that answers 404 until the lead has an enriched profile
getLeadOnceEnriched(email) ==
    LET id == aStore.leads[email]
        eid == aStore.enrichedData[email]
        result == calculateLeadScore(aReq[id].leadData, aReq[eid].enriched)
    IN  IF id = NoRequest \/ eid = NoRequest
        THEN [email |-> email, status |-> 404]
        ELSE [email |-> email, status |-> 200, lead |-> id, enriched |-> eid,
              score |-> result.value, category |-> categorizeLead(result.value)]

\* the handler of GET /api/leads/:email: leads.get, enrichedData.get, 404
\* if (!lead), else the lead with its profile and the recomputed score and
\* category; a TypeError of calculateLeadScore is answered 500 by Express
getLead(email) ==
    LET id == aStore.leads[email]
        eid == aStore.enrichedData[email]
        enriched == IF eid = NoRequest THEN EmptyProfile ELSE aReq[eid].enriched
        result == calculateLeadScore(aReq[id].leadData, enriched)
    IN  IF id = NoRequest
        THEN [email |-> email, status |-> 404]
        ELSE IF result.threw
        THEN [email |-> email, status |-> 500]
        ELSE [email |-> email, status |-> 200, lead |-> id, enriched |-> eid,
              score |-> result.value, category |-> categorizeLead(result.value)]

\* the contacts HubSpot holds when the server starts
CrmContents == SUBSET {"ann@acme.com", "bob@corp.com"}

AgentSingles ==
    {[cfg |-> c, bodies |-> <<b, NoBody>>] : c \in AgentConfigs, b \in AgentBodies}

\* two submissions: with the same email, with different emails
AgentPairs ==
    LET ann == CHOOSE b \in AgentBodies : b.title = Str_CFO
        ann2 == CHOOSE b \in AgentBodies : b.title = Str_Analyst
        bob == CHOOSE b \in AgentBodies : b.email = "bob@corp.com"
    IN  {[cfg |-> [clay |-> c, hubspot |-> "off", email |-> "off", slack |-> "off"],
          bodies |-> p] :
            c \in {"mock", "real"}, p \in {<<ann, ann2>>, <<ann, bob>>}}
        \cup
        {[cfg |-> [clay |-> "mock", hubspot |-> "real", email |-> "off", slack |-> "off"],
          bodies |-> p] : p \in {<<ann, ann2>>, <<ann, bob>>}}

InitAgent ==
    /\ IdleScore
    /\ IdleRules
    /\ IdleGtm
    /\ \E scenario \in AgentSingles \cup AgentPairs :
        /\ aCfg = scenario.cfg
        /\ aReq = [r \in Requests |->
                     IF scenario.bodies[r] = NoBody THEN Absent
                     ELSE Arriving(r, scenario.bodies[r])]
        /\ aCrm \in IF scenario.cfg.hubspot = "real" THEN CrmContents ELSE {{}}
    /\ aStore = EmptyStore
    /\ aGet = NoGet

\* HubSpot holds a contact with the email of submission r; it answers the
\* search with that contact and refuses (409) to create a second one
HubSpotHolds(r) == aReq[r].leadData.email \in aCrm

\* POST /api/leads arrives
AgPost(r) ==
    /\ aReq[r].pc = "arrive"
    /\ \E draw \in AgentDraws : Becomes(r, Run(Begin(Now(r)), draw))

AgClayPersonReturn(r) ==
    /\ aReq[r].pc = "clay.person"
    /\ \E outcome \in Outcomes, answer \in AgentPersonAnswers, draw \in AgentDraws :
        Becomes(r, Run(AfterPerson(Now(r), outcome, answer, draw), draw))

AgClayCompanyReturn(r) ==
    /\ aReq[r].pc = "clay.company"
    /\ \E outcome \in Outcomes, answer \in AgentCompanyAnswers, draw \in AgentDraws :
        Becomes(r, Run(AfterCompany(Now(r), outcome, answer, draw), draw))

AgHubSpotSearchReturn(r) ==
    /\ aReq[r].pc = "hubspot.search"
    /\ \E outcome \in Outcomes, draw \in AgentDraws :
        Becomes(r, Run(AfterSearch(Now(r), outcome, HubSpotHolds(r)), draw))

AgHubSpotWriteReturn(r) ==
    /\ aReq[r].pc = "hubspot.write"
    /\ \E outcome \in Outcomes, draw \in AgentDraws :
        /\ (outcome = "ok" /\ HubSpotHolds(r)) => aReq[r].found
        /\ Becomes(r, Run(AfterWrite(Now(r), outcome), draw))

AgHubSpotDealReturn(r) ==
    /\ aReq[r].pc = "hubspot.deal"
    /\ \E outcome \in Outcomes, draw \in AgentDraws :
        Becomes(r, Run(AfterDeal(Now(r), outcome), draw))

AgHubSpotAssociationReturn(r) ==
    /\ aReq[r].pc = "hubspot.association"
    /\ \E outcome \in Outcomes, draw \in AgentDraws :
        Becomes(r, Run(AfterAssociation(Now(r), outcome), draw))

AgEmailReturn(r) ==
    /\ aReq[r].pc = "email"
    /\ \E outcome \in Outcomes, draw \in AgentDraws :
        Becomes(r, Run(AfterEmail(Now(r), outcome), draw))

AgSlackReturn(r) ==
    /\ aReq[r].pc = "slack"
    /\ \E outcome \in Outcomes, draw \in AgentDraws :
        Becomes(r, Run(AfterSlack(Now(r), outcome), draw))

\* GET /api/leads/:email arrives at the GTM automation server (the one
\* that has submission 1) and is answered
AgGet(email) ==
    /\ aReq[1].pc /= "absent"
    /\ aGet' = getLead(email)
    /\ UNCHANGED <<aCfg, aReq, aStore, aCrm>>
    /\ UNCHANGED <<scoreVars, ruleVars, gtmVars>>

NextAgent ==
    \/ \E r \in Requests :
        \/ AgPost(r)
        \/ AgClayPersonReturn(r)
        \/ AgClayCompanyReturn(r)
        \/ AgHubSpotSearchReturn(r)
        \/ AgHubSpotWriteReturn(r)
        \/ AgHubSpotDealReturn(r)
        \/ AgHubSpotAssociationReturn(r)
        \/ AgEmailReturn(r)
        \/ AgSlackReturn(r)
    \/ \E email \in GetEmails : AgGet(email)

SpecAgent == InitAgent /\ [][NextAgent]_vars

-----------------------------------------------------------------------------
(* Both servers: a run is one request to POST /api/hubspot/contacts or up   *)
(* to two submissions to POST /api/leads.                                   *)

InitPipelines == InitGtm \/ InitAgent

NextPipelines == NextGtm \/ NextAgent

SpecPipelines == InitPipelines /\ [][NextPipelines]_vars

-----------------------------------------------------------------------------
(* server.js: POST /api/hubspot/contacts of the first backend, one request.
   The handler enriches the lead, posts the contact to HubSpot and notifies
   Slack for a hot lead; it shares the request variables of the GTM backend. *)

\* CLAY_API_KEY; the HubSpot token and the Slack webhook have no demo mode
ServerConfigs == {[app |-> "server.js", clay |-> c] : c \in Modes}

IsServer == "app" \in DOMAIN gCfg

\* if (enrichedLead.score >= 80), in the handler and in sendSlackNotification
HotLead(e) == e.score >= 80

\* let result; let isContactExists = false; let slackSent = false
NoServerResults == [contact |-> "null", contactExists |-> FALSE, slack |-> "false"]

InitServer ==
    /\ IdleScore
    /\ IdleRules
    /\ IdleAgent
    /\ gCfg \in ServerConfigs
    /\ gLead \in GtmLeads
    /\ gEnriched = NoLeadData
    /\ gPc = "sv.enrich"
    /\ gResults = NoServerResults
    /\ gResponse = NoResponse
    /\ gCalls = << >>
    /\ gSteps = << >>

\* enrichWithClay(leadData) up to its first await; without leadData both
\* callClayAPI and mockClayEnrichment throw on leadData.firstName
SrvEnrich ==
    /\ gPc = "sv.enrich"
    /\ gSteps' = Append(gSteps, "enrichWithClay")
    /\ IF ~gLead.isObj
       THEN /\ gPc' = "sv.failed"
            /\ UNCHANGED <<gEnriched, gCalls>>
       ELSE IF gCfg.clay = "demo"
            THEN IF mockClayEnrichmentThrows(gLead)
                 THEN /\ gPc' = "sv.failed"
                      /\ UNCHANGED <<gEnriched, gCalls>>
                 ELSE /\ \E revenueDraw \in MockDraws, techDraw \in MockDraws :
                             gEnriched' = mockClayEnrichment(gLead, revenueDraw, techDraw)
                      /\ gPc' = "sv.hubspot"
                      /\ UNCHANGED gCalls
            ELSE /\ gCalls' = Issue("clay.person")
                 /\ gPc' = "sv.enrich.person"
                 /\ UNCHANGED gEnriched
    /\ UNCHANGED <<gCfg, gLead, gResults, gResponse>>
    /\ UNCHANGED <<scoreVars, ruleVars, agentVars>>

\* callClayAPI after the person request settled
SrvClayPersonReturn ==
    /\ gPc = "sv.enrich.person"
    /\ \E outcome \in Outcomes :
        CASE outcome = "ok" ->
                /\ \E answer \in ClayPersonAnswers :
                        gEnriched' = Spread(gLead, personResults(answer))
                /\ gCalls' = Settle(outcome)
                /\ gPc' = "sv.hubspot"
          [] outcome = "non2xx" ->
                IF tryCompanyEnrichmentThrows(gLead)
                THEN /\ gEnriched' = Spread(gLead, enrichmentResults)
                     /\ gCalls' = Settle(outcome)
                     /\ gPc' = "sv.hubspot"
                ELSE /\ gCalls' = Append(Settle(outcome),
                                         [to |-> "clay.company", result |-> "pending"])
                     /\ gPc' = "sv.enrich.company"
                     /\ UNCHANGED gEnriched
          [] outcome = "throw" ->
                /\ gEnriched' = Spread(gLead, enrichmentResults)
                /\ gCalls' = Settle(outcome)
                /\ gPc' = "sv.hubspot"
    /\ UNCHANGED <<gCfg, gLead, gResults, gResponse, gSteps>>
    /\ UNCHANGED <<scoreVars, ruleVars, agentVars>>

\* tryCompanyEnrichment after the company request settled
SrvClayCompanyReturn ==
    /\ gPc = "sv.enrich.company"
    /\ \E outcome \in Outcomes :
        /\ IF outcome = "ok"
           THEN \E answer \in ClayCompanyAnswers :
                    gEnriched' = Spread(gLead, companyResults(answer))
           ELSE gEnriched' = Spread(gLead, enrichmentResults)
        /\ gCalls' = Settle(outcome)
    /\ gPc' = "sv.hubspot"
    /\ UNCHANGED <<gCfg, gLead, gResults, gResponse, gSteps>>
    /\ UNCHANGED <<scoreVars, ruleVars, agentVars>>

\* makeRequest(`${HUBSPOT_BASE_URL}/crm/v3/objects/contacts`, ...)
SrvHubSpot ==
    /\ gPc = "sv.hubspot"
    /\ gCalls' = Issue("hubspot.contact")
    /\ gPc' = "sv.hubspot.contact"
    /\ UNCHANGED <<gCfg, gLead, gEnriched, gResults, gResponse, gSteps>>
    /\ UNCHANGED <<scoreVars, ruleVars, agentVars>>

\* the result the handler takes from the answer of the contact request:
\* the created contact, { id: 'existing-contact' } after a 409, or a throw
contactResultConflictThrows(outcome) ==
    CASE outcome = "ok" -> "contact"
      [] OTHER -> "throws"
contactResult(outcome) ==
    CASE outcome = "ok" -> "contact"
      [] outcome = "conflict" -> "existing-contact"
      [] OTHER -> "throws"

\* the handler after the contact request settled
SrvHubSpotContactReturn ==
    /\ gPc = "sv.hubspot.contact"
    /\ \E outcome \in Outcomes \cup {"conflict"} :
        /\ gCalls' = Settle(outcome)
        /\ IF contactResult(outcome) = "throws"
           THEN /\ gPc' = "sv.failed"
                /\ UNCHANGED gResults
           ELSE /\ gResults' = [gResults EXCEPT
                        !.contact = contactResult(outcome),
                        !.contactExists = (outcome = "conflict")]
                /\ gPc' = "sv.slack"
    /\ UNCHANGED <<gCfg, gLead, gEnriched, gResponse, gSteps>>
    /\ UNCHANGED <<scoreVars, ruleVars, agentVars>>

\* if (enrichedLead.score >= 80) { await sendSlackNotification(enrichedLead) }
SrvSlack ==
    /\ gPc = "sv.slack"
    /\ IF HotLead(gEnriched)
       THEN /\ gSteps' = Append(gSteps, "sendSlackNotification")
            /\ gCalls' = Issue("slack")
            /\ gPc' = "sv.slack.wait"
       ELSE /\ gPc' = "sv.respond"
            /\ UNCHANGED <<gSteps, gCalls>>
    /\ UNCHANGED <<gCfg, gLead, gEnriched, gResults, gResponse>>
    /\ UNCHANGED <<scoreVars, ruleVars, agentVars>>

\* sendSlackNotification returns true or false and never throws; the handler
\* drops the value: slackSent = true
SrvSlackReturn ==
    /\ gPc = "sv.slack.wait"
    /\ \E outcome \in Outcomes : gCalls' = Settle(outcome)
    /\ gResults' = [gResults EXCEPT !.slack = "true"]
    /\ gPc' = "sv.respond"
    /\ UNCHANGED <<gCfg, gLead, gEnriched, gResponse, gSteps>>
    /\ UNCHANGED <<scoreVars, ruleVars, agentVars>>

\* res.json({ success: true, contact: result, contactExists, ... })
SrvRespond ==
    /\ gPc = "sv.respond"
    /\ gResponse' =
         [status |-> 200, success |-> TRUE,
          contact |-> gResults.contact,
          contactExists |-> gResults.contactExists,
          enrichmentData |->
             [seniority |-> gEnriched.seniority,
              department |-> gEnriched.department,
              companyRevenue |-> gEnriched.companyRevenue,
              technologies |-> gEnriched.technologies],
          slackNotified |-> gResults.slack]
    /\ gPc' = "done"
    /\ UNCHANGED <<gCfg, gLead, gEnriched, gResults, gCalls, gSteps>>
    /\ UNCHANGED <<scoreVars, ruleVars, agentVars>>

\* the catch of the handler: res.status(500).json({ success: false, ... })
SrvError ==
    /\ gPc = "sv.failed"
    /\ gResponse' = [status |-> 500, success |-> FALSE]
    /\ gPc' = "done"
    /\ UNCHANGED <<gCfg, gLead, gEnriched, gResults, gCalls, gSteps>>
    /\ UNCHANGED <<scoreVars, ruleVars, agentVars>>

NextServer ==
    \/ SrvEnrich
    \/ SrvClayPersonReturn
    \/ SrvClayCompanyReturn
    \/ SrvHubSpot
    \/ SrvHubSpotContactReturn
    \/ SrvSlack
    \/ SrvSlackReturn
    \/ SrvRespond
    \/ SrvError

SpecServer == InitServer /\ [][NextServer]_vars

\* the two handlers of POST /api/hubspot/contacts
InitContacts == InitGtm \/ InitServer

NextContacts == NextGtm \/ NextServer

SpecContacts == InitContacts /\ [][NextContacts]_vars

-----------------------------------------------------------------------------
(* Properties of the complete GTM backend *)

GtmAttempted(step) == \E i \in 1..Len(gSteps) : gSteps[i] = step

GtmCallFailed(to) ==
    \E i \in 1..Len(gCalls) : gCalls[i].to = to /\ gCalls[i].result = "failed"

GtmCallOk(to) ==
    \E i \in 1..Len(gCalls) : gCalls[i].to = to /\ gCalls[i].result = "ok"

\* the fan-out steps after a failed request, with the condition under which
\* each is due and the value its key of the response must carry
GtmLaterSteps(to) ==
    CASE to \in {"hubspot.contact", "hubspot.deal"} -> {"slack", "asana", "zendesk", "dealhub"}
      [] to = "slack" -> {"asana", "zendesk", "dealhub"}
      [] to = "asana" -> {"zendesk", "dealhub"}
      [] to = "zendesk" -> {"dealhub"}
      [] OTHER -> {}

GtmStepFunction(step) ==
    CASE step = "slack" -> "sendSlackNotification"
      [] step = "asana" -> "createAsanaTask"
      [] step = "zendesk" -> "createZendeskTicket"
      [] step = "dealhub" -> "createDealHubQuote"

GtmDue(step) ==
    CASE step = "zendesk" -> gLead.score >= 60
      [] step = "dealhub" -> gLead.score >= 70 /\ gLead.territory = "Enterprise Team"
      [] OTHER -> TRUE

\* what a step that ran reports: true in demo mode and after a 2xx answer
GtmOutcome(step) ==
    IF gCfg[step] = "demo" \/ GtmCallOk(step) THEN "true" ELSE "false"

FanOutCalls == {"hubspot.contact", "hubspot.deal", "slack", "asana", "zendesk", "dealhub"}

\* C2: when the Slack request fails (or any request of the CRM, Slack, Asana,
\* Zendesk or DealHub steps), the handler never takes its error exit, and in
\* the finished run every later step that is due was attempted - Asana
\* always, Zendesk when score >= 60, DealHub when score >= 70 in the
\* Enterprise territory - and the 200 response carries that step's own
\* outcome under its own key.
C2_FailureNeverStopsLaterSteps ==
    \A i \in 1..Len(gCalls) :
        (gCalls[i].to \in FanOutCalls /\ gCalls[i].result = "failed") =>
            /\ gPc /= "failed"
            /\ gPc = "done" =>
                /\ gResponse.status = 200
                /\ \A step \in GtmLaterSteps(gCalls[i].to) :
                      (GtmDue(step) /\ (step = "slack" => gCfg.slack = "demo" \/ gLead.score >= 70)) =>
                          /\ GtmAttempted(GtmStepFunction(step))
                          /\ gResponse.automation[step] = GtmOutcome(step)

C2_Witness ==
    /\ gPc = "done"
    /\ GtmCallFailed("slack")
    /\ GtmAttempted("createAsanaTask") /\ GtmCallOk("asana")
    /\ GtmAttempted("createZendeskTicket") /\ GtmCallFailed("zendesk")
    /\ GtmAttempted("createDealHubQuote") /\ GtmCallOk("dealhub")
    /\ gResponse.automation =
          [slack |-> "false", asana |-> "true", zendesk |-> "false", dealhub |-> "true"]

-----------------------------------------------------------------------------
(* Properties of both servers *)

AgentActive(r) == aReq[r].pc /= "absent"

AgentWrites == {"hubspot.create", "hubspot.update"}

\* C3: a deal request is issued only after the contact request of the same
\* run was answered with success, and only for a score at or above the
\* threshold: 60 in createHubSpotContact, 40 in GTMAgent.processLead.
C3_DealOnlyAfterContactAndQualified ==
    /\ \A i \in 1..Len(gCalls) :
          gCalls[i].to = "hubspot.deal" =>
              /\ \E j \in 1..(i - 1) :
                    gCalls[j].to = "hubspot.contact" /\ gCalls[j].result = "ok"
              /\ gEnriched.score >= 60
    /\ \A r \in Requests :
          AgentActive(r) =>
              \A i \in 1..Len(aReq[r].calls) :
                  aReq[r].calls[i].to = "hubspot.deal" =>
                      /\ \E j \in 1..(i - 1) :
                            /\ aReq[r].calls[j].to \in AgentWrites
                            /\ aReq[r].calls[j].result = "ok"
                      /\ aReq[r].leadData.score >= 40

C3_Witness ==
    \E r \in Requests :
        /\ AgentActive(r)
        /\ aReq[r].leadData.score = 40
        /\ \E i \in 1..Len(aReq[r].calls) : aReq[r].calls[i].to = "hubspot.deal"

ClientError == 400..499

\* C4: a submission without email is rejected with a 4xx status and nothing
\* is done for it: the lead is not stored, no pipeline function runs, no
\* request goes out.
C4_AbsentEmailRejected ==
    /\ (gPc /= "idle" /\ gLead.isObj /\ gLead.email = UNDEF) =>
          /\ gSteps = << >>
          /\ gCalls = << >>
          /\ gPc = "done" => gResponse.status \in ClientError
    /\ \A r \in Requests :
          (AgentActive(r) /\ aReq[r].body.email = UNDEF /\ aReq[r].pc /= "arrive") =>
              /\ aReq[r].response.status \in ClientError
              /\ aReq[r].actions = << >>
              /\ aReq[r].calls = << >>
              /\ aStore.leads[UNDEF] = NoRequest

\* the profiles enrichment produces without a provider
GtmMockProfiles ==
    {mockClayEnrichment(gLead, revenueDraw, techDraw) :
        revenueDraw \in MockDraws, techDraw \in MockDraws}

AgentCallFailed(r, to) ==
    \E i \in 1..Len(aReq[r].calls) :
        aReq[r].calls[i].to = to /\ aReq[r].calls[i].result = "failed"

\* C5: with a real provider key, after a failed provider request enrichment
\* yields the mock profile that demo mode produces (seniority, department,
\* company revenue, technologies) and the run goes on to its 200 response.
C5_FailedProviderFallsBackToMock ==
    /\ (gPc /= "idle" /\ gCfg.clay = "real"
            /\ (GtmCallFailed("clay.person") \/ GtmCallFailed("clay.company"))
            /\ gPc \notin {"enrich.person", "enrich.company"}) =>
          /\ gPc /= "failed"
          /\ gPc = "done" => gResponse.status = 200
          /\ [gEnriched EXCEPT !.hubspotContactId = UNDEF] \in GtmMockProfiles
    /\ \A r \in Requests :
          AgentActive(r) =>
              /\ (AgentCallFailed(r, "clay.person") /\ aReq[r].pc /= "done") =>
                    aReq[r].enriched.person \in {getMockPersonData(d) : d \in AgentDraws}
              /\ (AgentCallFailed(r, "clay.company") /\ aReq[r].pc /= "done") =>
                    aReq[r].enriched.company \in {getMockCompanyData(d) : d \in AgentDraws}
              /\ ((AgentCallFailed(r, "clay.person") \/ AgentCallFailed(r, "clay.company"))
                    /\ aReq[r].pc = "done") => aReq[r].response.status = 200

-----------------------------------------------------------------------------
(* The processing report of the complete GTM backend *)

AutomationCalls == {"slack", "asana", "zendesk", "dealhub"}

\* C11: in a finished run a failed Slack, Asana, Zendesk or DealHub request
\* is recorded under that step's key (false), the response is the 200 one
\* with success: true, and a response with success: false is given only
\* after the CRM contact request of the run failed.
C11_SuccessFalseOnlyOnContactFailure ==
    (gPc = "done") =>
        /\ \A to \in AutomationCalls :
              GtmCallFailed(to) =>
                  /\ gResponse.status = 200
                  /\ gResponse.success
                  /\ gResponse.automation[to] = "false"
        /\ ~gResponse.success => GtmCallFailed("hubspot.contact")

\* the step did not run because of its score or territory condition
GtmSkipped(step) ==
    CASE step = "slack" -> gCfg.slack = "real" /\ ~SlackQualified(gEnriched)
      [] step = "zendesk" -> ~ZendeskQualified(gEnriched)
      [] step = "dealhub" -> ~DealHubQualified(gEnriched)
      [] OTHER -> FALSE

\* the messages the catch of a step in the handler pushes to errors
StepMessages(step) ==
    CASE step = "slack" -> {"Slack: request error", "Slack: API error"}
      [] step = "asana" -> {"Asana: request error", "Asana: API error"}
      [] step = "zendesk" -> {"Zendesk: request error", "Zendesk: API error"}
      [] step = "dealhub" -> {"DealHub: request error", "DealHub: API error"}

\* what the 200 response says about a step: its key of automation and the
\* entries of errors that belong to it
StepEntry(step) ==
    [value |-> gResponse.automation[step],
     reasons |-> {m \in StepMessages(step) :
                    \E i \in 1..Len(gResponse.errors) : gResponse.errors[i] = m}]

\* what the response says about a step that was skipped by its condition
SkippedEntry(step) ==
    [value |-> IF step = "slack" THEN "undefined" ELSE "false", reasons |-> {}]

-----------------------------------------------------------------------------
(* Properties of the two handlers of POST /api/hubspot/contacts *)

ContactConflict ==
    \E i \in 1..Len(gCalls) :
        gCalls[i].to = "hubspot.contact" /\ gCalls[i].result = "conflict"

-----------------------------------------------------------------------------
(* Properties of HubSpotIntegration.createOrUpdateContact *)

AgentCallsTo(r, tos) == {i \in 1..Len(aReq[r].calls) : aReq[r].calls[i].to \in tos}

\* submission r issues its create request in this step
IssuesCreate(r) ==
    /\ Len(aReq'[r].calls) = Len(aReq[r].calls) + 1
    /\ aReq'[r].calls[Len(aReq'[r].calls)].to = "hubspot.create"

\* every write follows the search of its run, a run has one write once its
\* search has returned and never two, the write is an update exactly when
\* the search returned a contact
SearchThenOneWrite(r) ==
    /\ \A i \in AgentCallsTo(r, AgentWrites) :
          /\ \E j \in 1..(i - 1) :
                aReq[r].calls[j].to = "hubspot.search" /\ aReq[r].calls[j].result /= "pending"
          /\ aReq[r].calls[i].to = "hubspot.update" <=> aReq[r].found
    /\ Cardinality(AgentCallsTo(r, AgentWrites)) <= 1
    /\ (\E j \in AgentCallsTo(r, {"hubspot.search"}) : aReq[r].calls[j].result /= "pending")
          => Cardinality(AgentCallsTo(r, AgentWrites)) = 1

\* C14: createOrUpdateContact searches by email first and then issues
\* exactly one write, an update if the search returned a contact and a
\* create otherwise, never both; and no create request is issued while
\* HubSpot holds a contact with that email.
C14_SearchThenSingleWrite ==
    /\ [](\A r \in Requests : AgentActive(r) => SearchThenOneWrite(r))
    /\ [][\A r \in Requests :
            (AgentActive(r) /\ IssuesCreate(r)) => ~HubSpotHolds(r)]_vars

-----------------------------------------------------------------------------
(* Deals, quotes, tickets and notifications *)

AgentCallOk(r, tos) ==
    \E i \in AgentCallsTo(r, tos) : aReq[r].calls[i].result = "ok"

\* C15: a run whose contact step succeeded - with a created contact, the
\* existing contact after a 409, or the demo-mode contact - for a lead with
\* score at or above the threshold (60 in the GTM backend, 40 in
\* processLead) has attempted to create the deal.
C15_DealAttemptedWhenQualified ==
    /\ (gPc = "done" /\ gResponse.status = 200
            /\ gResponse.contact /= "null" /\ gEnriched.score >= 60) =>
          GtmAttempted("createHubSpotDeal")
    /\ \A r \in Requests :
          (AgentActive(r) /\ AgentCallOk(r, AgentWrites)
                /\ aReq[r].leadData.score >= 40) =>
              AgentCallsTo(r, {"hubspot.deal"}) /= {}

\* the handler of the GTM backend has answered 200
GtmFinished == gPc = "done" /\ gResponse.status = 200

\* C16: a DealHub quote is attempted only for score >= 70 in the territory
\* 'Enterprise Team' that Step 1 assigned - never for a Mid-Market or SMB
\* lead - and a finished run with such a lead has attempted it.
C16_DealHubIffEnterpriseAndScore70 ==
    /\ GtmAttempted("createDealHubQuote") =>
          /\ gLead.score >= 70
          /\ gLead.territory = "Enterprise Team"
          /\ gLead.territory = assignTerritory(gLead).territory
          /\ gLead.territory \notin {"Mid-Market Team", "SMB Team"}
    /\ (GtmFinished /\ gLead.score >= 70 /\ gLead.territory = "Enterprise Team") =>
          GtmAttempted("createDealHubQuote")

C16_Witness ==
    /\ GtmFinished
    /\ gLead.score = 70
    /\ gLead.territory = "Enterprise Team"
    /\ GtmAttempted("createDealHubQuote")
    /\ gCfg.dealhub = "real" /\ GtmCallOk("dealhub")

\* C17: a Zendesk ticket is attempted only for score >= 60, and a finished
\* run with score >= 60 has attempted it.
C17_ZendeskIffScore60 ==
    /\ GtmAttempted("createZendeskTicket") => gLead.score >= 60
    /\ (GtmFinished /\ gLead.score >= 60) => GtmAttempted("createZendeskTicket")

C17_Witness ==
    /\ GtmFinished
    /\ gLead.score = 60
    /\ GtmAttempted("createZendeskTicket")
    /\ gCfg.zendesk = "real" /\ GtmCallOk("zendesk")

GtmCallsTo(to) == {i \in 1..Len(gCalls) : gCalls[i].to = to}

\* C18: with a real Slack webhook a message is sent only for score >= 70,
\* a finished run with score >= 70 has sent one, and the message says
\* 'HIGH PRIORITY' for score >= 80 and 'QUALIFIED' for 70 <= score < 80.
C18_SlackIffScore70WithSeverity ==
    (gPc /= "idle" /\ gCfg.slack = "real") =>
        /\ \A i \in GtmCallsTo("slack") :
              /\ gLead.score >= 70
              /\ gLead.score >= 80 => gCalls[i].urgencyLevel = "HIGH PRIORITY"
              /\ gLead.score < 80 => gCalls[i].urgencyLevel = "QUALIFIED"
        /\ (GtmFinished /\ gLead.score >= 70) => GtmCallsTo("slack") /= {}
        /\ (GtmFinished /\ ~(gLead.score >= 70)) => GtmCallsTo("slack") = {}

C18_Witness ==
    /\ GtmFinished
    /\ gCfg.slack = "real"
    /\ gLead.score = 80
    /\ \E i \in GtmCallsTo("slack") :
          gCalls[i].urgencyLevel = "HIGH PRIORITY" /\ gCalls[i].result = "ok"

\* medium < high < urgent
PriorityRank(priority) ==
    CASE priority = "medium" -> 1
      [] priority = "high" -> 2
      [] priority = "urgent" -> 3

\* C19: every finished run has called createAsanaTask, whatever the score;
\* the task request of a lead with score s is due no later and has no lower
\* priority than the task of any lower score would at the same moment, and
\* no earlier and no higher than that of any higher score; the priority is
\* medium below 60, high from 60 and urgent from 80, and the due date moves
\* from three days to one day at 60 and to two hours at 80.
C19_TaskForEveryLeadMonotoneInScore ==
    /\ GtmFinished => GtmAttempted("createAsanaTask")
    /\ (GtmFinished /\ gCfg.asana = "real") => GtmCallsTo("asana") /= {}
    /\ \A i \in GtmCallsTo("asana") :
          LET c == gCalls[i]
              s == gLead.score
          IN  /\ \A lower \in {x \in GtmScores : x <= s} :
                    /\ c.due_on <= getTaskDueDate(lower, c.at)
                    /\ PriorityRank(c.priority) >= PriorityRank(taskPriority(lower))
              /\ \A higher \in {x \in GtmScores : x >= s} :
                    /\ c.due_on >= getTaskDueDate(higher, c.at)
                    /\ PriorityRank(c.priority) <= PriorityRank(taskPriority(higher))
              /\ c.priority = "urgent" <=> s >= 80
              /\ c.priority = "medium" <=> ~(s >= 60)
              /\ s >= 80 => c.due_on = (c.at + 2) \div 24
              /\ (s >= 60 /\ s < 80) => c.due_on = 1
              /\ ~(s >= 60) => c.due_on = 3

C19_Witness ==
    /\ GtmFinished
    /\ gLead.score = 59
    /\ \E i \in GtmCallsTo("asana") :
          /\ gCalls[i].priority = "medium"
          /\ gCalls[i].due_on = 3
          /\ gCalls[i].result = "ok"

-----------------------------------------------------------------------------
(* No automatic retries *)

\* the requests a run of the GTM backend can issue
GtmRequests ==
    {"clay.person", "clay.company", "hubspot.contact", "hubspot.deal",
     "slack", "asana", "zendesk", "dealhub"}

\* the requests a run of processLead can issue
AgentRequests ==
    {"clay.person", "clay.company", "hubspot.search", "hubspot.deal",
     "hubspot.association", "email", "slack"}

-----------------------------------------------------------------------------
(* Failed HubSpot requests *)

\* "Retry 3 times with exponential backoff"
HubSpotRetries == 3

HubSpotErrors == {"HubSpot: HubSpot API error", "HubSpot: request error"}

\* Step 3 of the GTM backend has recorded the failure of the contact step
GtmHubSpotReportedFailed ==
    /\ gPc /= "idle"
    /\ GtmCallFailed("hubspot.contact")
    /\ \E i \in 1..Len(gResults.errors) : gResults.errors[i] \in HubSpotErrors

\* processLead has logged the failure of createOrUpdateContact and gone on
AgentHubSpotReportedFailed(r) ==
    /\ AgentActive(r)
    /\ aReq[r].pc /= "hubspot.write"
    /\ \E i \in AgentCallsTo(r, AgentWrites) : aReq[r].calls[i].result = "failed"

\* C21: the HubSpot contact step is reported as failed only after the failed
\* request was retried 3 times, that is after 4 attempts of the contact
\* request in the run.
C21_HubSpotRetriedBeforeFailure ==
    /\ GtmHubSpotReportedFailed =>
          Cardinality(GtmCallsTo("hubspot.contact")) = 1 + HubSpotRetries
    /\ \A r \in Requests :
          AgentHubSpotReportedFailed(r) =>
              Cardinality(AgentCallsTo(r, AgentWrites)) = 1 + HubSpotRetries

-----------------------------------------------------------------------------
(* The Maps of the GTM automation server *)

\* the Map leads holds the leadData object of the handler that stored it
StoredLead(k) == aReq[aStore.leads[k]].leadData

\* submission r arrives in this step
Arrives(r) == aReq[r].pc = "arrive" /\ aReq'[r].pc /= "arrive"

\* the fields of a lead record that come from the request body
SubmittedFields(leadData) ==
    [leadData EXCEPT !.score = UNDEF_NUM, !.category = UNDEF]

\* C22: the lead stored under an email is the record built from the most
\* recent submission with that email, with every field of the body taken
\* from that submission and none from an earlier one; a submission replaces
\* the entry of its own email and leaves the entries of all other emails as
\* they were, and nothing but a submission changes the Map.
C22_LastSubmissionOverwrites ==
    /\ [](\A k \in Keys :
            aStore.leads[k] /= NoRequest =>
                /\ StoredLead(k).email = k
                /\ SubmittedFields(StoredLead(k)) =
                      buildLeadData(aStore.leads[k], aReq[aStore.leads[k]].body))
    /\ [][\A r \in Requests :
            /\ Arrives(r) =>
                  /\ aStore'.leads[aReq[r].body.email] = r
                  /\ \A k \in Keys \ {aReq[r].body.email} :
                        aStore'.leads[k] = aStore.leads[k]
            /\ (\A r2 \in Requests : ~Arrives(r2)) =>
                  aStore'.leads = aStore.leads]_vars

\* the CFO submission of ann@acme.com was stored first, then the Analyst
\* submission with the same email arrived; both have finished
C22_Witness ==
    /\ aReq[1].pc = "done" /\ aReq[2].pc = "done"
    /\ aReq[1].body.email = "ann@acme.com" /\ aReq[2].body.email = "ann@acme.com"
    /\ aReq[1].body.title = Str_CFO
    /\ aStore.leads["ann@acme.com"] = 2
    /\ StoredLead("ann@acme.com").title = Str_Analyst
    /\ StoredLead("ann@acme.com").industry = Str_fintech

-----------------------------------------------------------------------------
(* One lead scored, categorized and routed: calculateLeadScore and          *)
(* categorizeLead as in Step 2 of GTMAgent.processLead, assignTerritory as  *)
(* in Step 1 of POST /api/hubspot/contacts.  scLead holds the title and the *)
(* industry of the lead, rlLead its companySize, industry and score.        *)

Str_retail == <<"r", "e", "t", "a", "i", "l">>

ScenarioTitles == {Str_CFO, Str_Analyst}

\* the industry of the lead, as characters and as the string assignTerritory
\* compares
ScenarioIndustries ==
    {[chars |-> Str_fintech, name |-> "fintech"],
     [chars |-> Str_retail, name |-> "retail"],
     [chars |-> Str_SaaS, name |-> "SaaS"]}

ScenarioSizes == {"1000+", "51-200", "1-10"}

\* a profile with revenue $60M, 200 employees, technologies ['Salesforce']
\* and enrichedData.funding.recentRound
FundedProfile(recentRound) ==
    [isObj |-> TRUE,
     company |-> [isObj |-> TRUE, revenue |-> 60000000, employees |-> 200,
                  technologies |-> <<Str_Salesforce>>, industry |-> UNDEF_STR],
     technologies |-> UNDEF_ARR,
     intent |-> NoIntent,
     person |-> NoPerson,
     funding |-> [recentRound |-> recentRound]]

ScenarioProfiles ==
    {AbsentProfile, EmptyProfile, FundedProfile(TRUE), FundedProfile(FALSE)}

InitScenarios ==
    /\ IdlePipe
    /\ \E title \in ScenarioTitles, industry \in ScenarioIndustries,
          companySize \in ScenarioSizes :
        /\ scLead = [title |-> title, industry |-> industry.chars]
        /\ rlLead = [firstName |-> "Sarah", companySize |-> companySize,
                     industry |-> industry.name, score |-> UNDEF_NUM]
    /\ scEnriched \in ScenarioProfiles
    /\ scResult = NotScored
    /\ scOp = "scenario"
    /\ rlTerritory = NoTerritory
    /\ rlCategory = UNDEF
    /\ rlHubCategory = UNDEF
    /\ rlOp = "scenario"

\* const score = calculateLeadScore(leadData, enriched); leadData.score =
\* score; leadData.category = this.categorizeLead(score)
ScnScore ==
    /\ scOp = "scenario"
    /\ scResult' = calculateLeadScore(scLead, scEnriched)
    /\ rlLead' = [rlLead EXCEPT !.score = scResult'.value]
    /\ rlCategory' = categorizeLead(scResult'.value)
    /\ scOp' = "scenario.scored"
    /\ UNCHANGED <<scLead, scEnriched, rlTerritory, rlHubCategory, rlOp>>
    /\ UNCHANGED pipeVars

\* const territoryAssignment = assignTerritory(leadData)
ScnAssignTerritory ==
    /\ rlOp = "scenario"
    /\ rlTerritory' = assignTerritory(rlLead)
    /\ rlOp' = "scenario.assigned"
    /\ UNCHANGED <<rlLead, rlCategory, rlHubCategory>>
    /\ UNCHANGED <<scoreVars, pipeVars>>

NextScenarios ==
    \/ ScnScore
    \/ ScnAssignTerritory

SpecScenarios == InitScenarios /\ [][NextScenarios]_vars

\* the lead of scenario A: '1000+', fintech, CFO, the funded profile
ScenarioA ==
    /\ scOp = "scenario.scored"
    /\ scLead = [title |-> Str_CFO, industry |-> Str_fintech]
    /\ rlLead.companySize = "1000+"
    /\ scEnriched = FundedProfile(TRUE)

\* C23: the lead with company size '1000+', industry 'fintech', revenue
\* $60M, 200 employees, technologies ['Salesforce'], title 'CFO' and recent
\* funding gets a score >= 85, 20 points of it from the recent funding, the
\* category HOT and the Enterprise territory with its representative.
C23_ScenarioAScores85 ==
    ScenarioA =>
        /\ scResult.value >= 85
        /\ scResult.value =
              calculateLeadScore(scLead, FundedProfile(FALSE)).value + 20
        /\ rlCategory = "HOT"
        /\ rlOp = "scenario.assigned" => rlTerritory = EnterpriseTeam


\* the scenario leads, and the requests both servers process
InitScenarioRuns == InitScenarios \/ InitPipelines

NextScenarioRuns == NextScenarios \/ NextPipelines

SpecScenarioRuns == InitScenarioRuns /\ [][NextScenarioRuns]_vars

\* the lead of scenario B: '1-10', Analyst, an industry that is no target
\* industry, no enriched profile (undefined or {})
ScenarioB ==
    /\ scOp = "scenario.scored"
    /\ scLead.title = Str_Analyst
    /\ ~IsTargetIndustry(scLead.industry)
    /\ rlLead.companySize = "1-10"
    /\ scEnriched \in {AbsentProfile, EmptyProfile}

\* C24: the lead with no enriched profile, an industry matching no target
\* industry, title 'Analyst' and company size '1-10' gets score 0, category
\* COLD and the SMB territory; a run of processLead with score 0 gives the
\* category COLD and issues no deal request, and a run of the GTM backend
\* for a '1-10' lead with score 0 is routed to SMB and calls neither
\* createHubSpotDeal nor createDealHubQuote.
C24_ScenarioBColdNoDealNoQuote ==
    /\ ScenarioB =>
          /\ scResult.value = 0
          /\ rlLead.score = 0
          /\ rlCategory = "COLD"
          /\ rlOp = "scenario.assigned" => rlTerritory = SMBTeam
    /\ \A r \in Requests :
          (AgentActive(r) /\ aReq[r].leadData.score = 0) =>
              /\ aReq[r].leadData.category = "COLD"
              /\ AgentCallsTo(r, {"hubspot.deal"}) = {}
    /\ (gPc /= "idle" /\ gLead.isObj /\ gLead.score = 0
            /\ gLead.companySize = "1-10") =>
          /\ gLead.territory \in {UNDEF, "SMB Team"}
          /\ ~GtmAttempted("createHubSpotDeal")
          /\ ~GtmAttempted("createDealHubQuote")
          /\ GtmCallsTo("hubspot.deal") = {}
          /\ GtmCallsTo("dealhub") = {}

C24_Witness ==
    /\ ScenarioB
    /\ scLead.industry = Str_retail
    /\ scEnriched = AbsentProfile
    /\ rlOp = "scenario.assigned"
    /\ scResult.value = 0
    /\ rlCategory = "COLD"
    /\ rlTerritory = SMBTeam

-----------------------------------------------------------------------------
(* The order of the steps of POST /api/hubspot/contacts *)

\* the pipeline functions in the order of Steps 1-7; createHubSpotDeal is
\* called inside createHubSpotContact
PipelineOrder ==
    <<"assignTerritory", "enrichWithClay", "createHubSpotContact",
      "createHubSpotDeal", "sendSlackNotification", "createAsanaTask",
      "createZendeskTicket", "createDealHubQuote">>

StepRank(function) ==
    CHOOSE i \in 1..Len(PipelineOrder) : PipelineOrder[i] = function

\* the requests in the order of the steps that issue them
RequestOrder ==
    <<"clay.person", "clay.company", "hubspot.contact", "hubspot.deal",
      "slack", "asana", "zendesk", "dealhub">>

RequestRank(to) == CHOOSE i \in 1..Len(RequestOrder) : RequestOrder[i] = to

GtmPending == {i \in 1..Len(gCalls) : gCalls[i].result = "pending"}

\* C25: the pipeline functions of a run are called in the order territory
\* assignment, enrichment, CRM contact (with its deal), Slack, Asana,
\* Zendesk, DealHub, each at most once, and the requests go out in that
\* order; at most one request of the run is in flight, and it is the latest
\* one; a function is called, and a request is issued, only when every
\* request issued before has been answered or has failed; a run that
\* answers 200 has gone through territory, enrichment, contact, Slack and
\* Asana.
C25_StepsInOrderOneCallInFlight ==
    /\ [](/\ \A i, j \in 1..Len(gSteps) :
                i < j => StepRank(gSteps[i]) < StepRank(gSteps[j])
          /\ \A i, j \in 1..Len(gCalls) :
                i < j => RequestRank(gCalls[i].to) < RequestRank(gCalls[j].to)
          /\ Cardinality(GtmPending) <= 1
          /\ GtmPending \subseteq {Len(gCalls)}
          /\ (gPc = "done" /\ gResponse.status = 200) =>
                \A k \in {1, 2, 3, 5, 6} : GtmAttempted(PipelineOrder[k]))
    /\ [][(Len(gSteps') > Len(gSteps) \/ Len(gCalls') > Len(gCalls)) =>
            \A i \in 1..Len(gCalls) : gCalls'[i].result /= "pending"]_vars

\* a finished run that called all eight functions and issued seven requests
C25_Witness ==
    /\ gPc = "done"
    /\ gSteps = PipelineOrder
    /\ Len(gCalls) = 7
    /\ GtmCallFailed("slack")
    /\ GtmCallOk("dealhub")

-----------------------------------------------------------------------------
(* GET /api/leads/:email *)

\* a submission with this email has arrived
Submitted(email) ==
    \E r \in Requests :
        AgentActive(r) /\ aReq[r].pc /= "arrive" /\ aReq[r].body.email = email

\* C26: GET /api/leads/:email answers 404 exactly when no lead was ever
\* submitted under that email, and otherwise 200 with the lead stored under
\* it; a stored entry is never removed, so a GET that once answered 200 for
\* an email cannot be followed by a 404 for it.
C26_NotFoundIffNeverSubmitted ==
    /\ [](\A k \in GetEmails : aStore.leads[k] /= NoRequest <=> Submitted(k))
    /\ [][\A k \in Keys :
            aStore.leads[k] /= NoRequest => aStore'.leads[k] /= NoRequest]_vars
    /\ [][aGet' /= aGet =>
            /\ aGet'.email \in GetEmails
            /\ aGet'.status \in {200, 404}
            /\ aGet'.status = 404 <=> ~Submitted(aGet'.email)
            /\ aGet'.status = 200 =>
                  /\ aGet'.lead = aStore.leads[aGet'.email]
                  /\ aReq[aGet'.lead].body.email = aGet'.email]_vars
    /\ [](aGet.status = 200 => getLead(aGet.email).status = 200)

\* the lead of ann@acme.com was read after its second submission replaced
\* the first and both had finished
C26_Witness ==
    /\ aGet.status = 200
    /\ aGet.email = "ann@acme.com"
    /\ aGet.lead = 2
    /\ aReq[1].pc = "done" /\ aReq[2].pc = "done"
    /\ aReq[1].body.email = "ann@acme.com"

-----------------------------------------------------------------------------
(* Two submissions with the same email in flight *)

\* both submissions carry the same email and both have been answered
BothFinishedSameEmail ==
    /\ \A r \in Requests : AgentActive(r) /\ aReq[r].pc = "done"
    /\ aReq[1].body.email = aReq[2].body.email
    /\ aReq[1].body.email /= UNDEF

\* C27: with a real enrichment provider, once two submissions with the same
\* email have both finished, the profile in the Map enrichedData under that
\* email is the one computed for the submission whose record the Map leads
\* holds under it.
C27_LeadAndProfileOfOneSubmission ==
    (aCfg.clay = "real" /\ BothFinishedSameEmail) =>
        aStore.enrichedData[aReq[1].body.email] = aStore.leads[aReq[1].body.email]

-----------------------------------------------------------------------------
(* The category written to HubSpot *)

\* C28: the lead_category of the contact write that createOrUpdateContact
\* issues equals the category processLead assigned to the lead, which is
\* also the category of the response.
C28_CrmCategoryEqualsLeadCategory ==
    \A r \in Requests :
        AgentActive(r) =>
            /\ \A i \in AgentCallsTo(r, AgentWrites) :
                  aReq[r].calls[i].note = aReq[r].leadData.category
            /\ (aReq[r].pc = "done" /\ aReq[r].response.status = 200) =>
                  aReq[r].response.category = aReq[r].leadData.category

-----------------------------------------------------------------------------
(* The action list of processLead *)

AgentDid(r, action) ==
    \E i \in 1..Len(aReq[r].actions) : aReq[r].actions[i] = action

\* C29: the action list of a run contains 'deal_created' only if the deal
\* request of that run was answered with success (createDeal returned the
\* id of the deal), and 'synced_hubspot' only if the contact write of that
\* run was answered with success.
C29_ActionsReportWhatHappened ==
    \A r \in Requests :
        AgentActive(r) =>
            /\ AgentDid(r, "deal_created") => AgentCallOk(r, {"hubspot.deal"})
            /\ AgentDid(r, "synced_hubspot") => AgentCallOk(r, AgentWrites)

-----------------------------------------------------------------------------
(* The Slack flag of the response of POST /api/hubspot/contacts *)

\* the score at which the handler notifies: 80 in src/server.js, 70 in the
\* complete GTM backend
BelowNotifyThreshold ==
    IF IsServer THEN ~HotLead(gEnriched) ELSE ~SlackQualified(gEnriched)

\* C30: in a 200 response slackNotified (automation.slack) is true only if
\* the Slack request of the run was answered 2xx; it is not true when the
\* score is below the notify threshold and when the Slack request failed.
C30_SlackFlagTruthful ==
    (gPc = "done" /\ gResponse.status = 200) =>
        /\ gResponse.slackNotified = "true" => GtmCallOk("slack")
        /\ BelowNotifyThreshold => gResponse.slackNotified /= "true"
        /\ GtmCallFailed("slack") => gResponse.slackNotified /= "true"

=============================================================================
